
---------------------------- MODULE Spec2Model ----------------------------
(***************************************************************************)
(* A model of the go-email package (src/email): the Header store, the      *)
(* Message tree, the serializer (Message.WriteTo and the writers it        *)
(* stacks) and the parser (ParseMessage and the readers it stacks).        *)
(*                                                                         *)
(* A byte is a one-character string; a byte outside printable ASCII is     *)
(* named "xHH" by its hexadecimal value.  A Go string or []byte is a       *)
(* sequence of bytes.  The standard library the package calls is modelled  *)
(* as of Go 1.5, the release src/email/parser.go names.                    *)
(***************************************************************************)
EXTENDS Integers, Sequences, FiniteSets, TLC

VARIABLES
    pc,        \* where the run stands: "build", "built", "written", "parsed", "input", ...
    hdr,       \* the Header the caller fills before NewMessage
    atts,      \* the parts (attachments, inlines) the caller has built so far
    msg,       \* <<>> or <<m>>: the Message tree that was constructed
    sink,      \* the io.Writer handed to Message.WriteTo
    wr,        \* what Message.WriteTo returned: [total, err]
    gen,       \* how the bytes handed to ParseMessage were laid out, <<>> if written by WriteTo
    raw,       \* the bytes handed to ParseMessage
    parsed,    \* what ParseMessage returned: [m, err], m being <<>> or <<m>>
    ref,       \* [m, n]: the multimap the Header calls made so far should give, and their number
    sv,        \* the last call of Header.Save: the header before and after it, the
               \* error it returned, and what genMessageID returned if it was called
    prd,       \* the calls made so far on a reader or a writer of the package and the
               \* bytes that went through: [r, acc, err, done, reads] for a reader
    qry        \* what the last query on a Message or a Header answered

\* Call(f, a) applies the function named f to the arguments a.  The functions of
\* the package and of the library it uses call each other through it.
RECURSIVE Call(_, _)

vars == <<pc, hdr, atts, msg, sink, wr, gen, raw, parsed, ref, sv, prd, qry>>

-----------------------------------------------------------------------------
(* Bytes *)

Printable ==
    <<" ","!","\"","#","$","%","&","'","(",")","*","+",",","-",".","/",
      "0","1","2","3","4","5","6","7","8","9",":",";","<","=",">","?","@",
      "A","B","C","D","E","F","G","H","I","J","K","L","M","N","O","P","Q",
      "R","S","T","U","V","W","X","Y","Z","[","\\","]","^","_","x60",
      "a","b","c","d","e","f","g","h","i","j","k","l","m","n","o","p","q",
      "r","s","t","u","v","w","x","y","z","{","|","}","~">>

HexDigits == <<"0","1","2","3","4","5","6","7","8","9","A","B","C","D","E","F">>

\* The byte whose value is n.
Chr(n) ==
    IF n >= 32 /\ n <= 126 THEN Printable[n - 31]
    ELSE IF n = 9 THEN "\t"
    ELSE IF n = 10 THEN "\n"
    ELSE IF n = 13 THEN "\r"
    ELSE "x" \o HexDigits[(n \div 16) + 1] \o HexDigits[(n % 16) + 1]

ByteTab == [n \in 0..255 |-> Chr(n)]

Byte == {ByteTab[n] : n \in 0..255}

OrdTab == [c \in Byte |-> CHOOSE n \in 0..255 : ByteTab[n] = c]

\* The value of byte c.
Ord(c) == OrdTab[c]

CR == "\r"
LF == "\n"
CRLF == <<"\r", "\n">>

isASCIISpace(b) == b = " " \/ b = "\t" \/ b = "\n" \/ b = "\r"

IsUpper(c) == Ord(c) >= 65 /\ Ord(c) <= 90
IsLower(c) == Ord(c) >= 97 /\ Ord(c) <= 122
ToLowerByte(c) == IF IsUpper(c) THEN ByteTab[Ord(c) + 32] ELSE c
ToUpperByte(c) == IF IsLower(c) THEN ByteTab[Ord(c) - 32] ELSE c

\* strings.ToLower
ToLower(s) == [i \in 1..Len(s) |-> ToLowerByte(s[i])]

\* strings.HasPrefix / bytes.HasPrefix
HasPrefix(s, p) == Len(s) >= Len(p) /\ SubSeq(s, 1, Len(p)) = p

HasSuffix(s, p) == Len(s) >= Len(p) /\ SubSeq(s, Len(s) - Len(p) + 1, Len(s)) = p

\* s[from:] in Go's 0-based slicing.
From(s, from) == SubSeq(s, from + 1, Len(s))

\* s[:to] in Go's 0-based slicing.
UpTo(s, to) == SubSeq(s, 1, to)

Min(a, b) == IF a < b THEN a ELSE b
Max(a, b) == IF a > b THEN a ELSE b

\* bytes.Index: the 0-based offset of the first occurrence of sep in s, or -1.
Index(s, sep) ==
    LET hits == {i \in 0..(Len(s) - Len(sep)) : SubSeq(s, i + 1, i + Len(sep)) = sep}
    IN  IF hits = {} THEN -1 ELSE CHOOSE i \in hits : \A j \in hits : i <= j

\* bytes.LastIndexByte
LastIndexByte(s, c) ==
    LET hits == {i \in 0..(Len(s) - 1) : s[i + 1] = c}
    IN  IF hits = {} THEN -1 ELSE CHOOSE i \in hits : \A j \in hits : i >= j

\* bytes.IndexByte
IndexByte(s, c) == Index(s, <<c>>)

\* The number of leading bytes of s that satisfy isASCIISpace.
RECURSIVE LeadingSpace(_)
LeadingSpace(s) ==
    IF s # <<>> /\ isASCIISpace(s[1]) THEN 1 + LeadingSpace(Tail(s)) ELSE 0

\* The number of trailing bytes of s that satisfy isASCIISpace.
RECURSIVE TrailingSpace(_)
TrailingSpace(s) ==
    IF s # <<>> /\ isASCIISpace(s[Len(s)])
    THEN 1 + TrailingSpace(SubSeq(s, 1, Len(s) - 1)) ELSE 0

TrimLeft(s) == From(s, LeadingSpace(s))
TrimRight(s) == UpTo(s, Len(s) - TrailingSpace(s))

\* textproto.TrimString: ASCII white space off both ends.
TrimString(s) == TrimRight(TrimLeft(s))

\* strings.Join
RECURSIVE Join(_, _)
Join(ss, sep) ==
    IF ss = <<>> THEN <<>>
    ELSE IF Len(ss) = 1 THEN ss[1]
    ELSE ss[1] \o sep \o Join(Tail(ss), sep)

\* Concatenation of a sequence of byte strings.
Flatten(ss) == Join(ss, <<>>)

-----------------------------------------------------------------------------
(* Header: a map from canonical field name to the sequence of its values. *)

sBcc == <<"B","c","c">>
sContentType == <<"C","o","n","t","e","n","t","-","T","y","p","e">>
sContentTransferEncoding ==
    <<"C","o","n","t","e","n","t","-","T","r","a","n","s","f","e","r","-",
      "E","n","c","o","d","i","n","g">>
sContentDisposition ==
    <<"C","o","n","t","e","n","t","-","D","i","s","p","o","s","i","t","i","o","n">>
sContentID == <<"C","o","n","t","e","n","t","-","I","D">>
sSubject == <<"S","u","b","j","e","c","t">>
sFrom == <<"F","r","o","m">>
sTo == <<"T","o">>

\* textproto.CanonicalMIMEHeaderKey: a key holding a space is returned as it is;
\* otherwise the first letter and every letter after a hyphen is upper-cased and
\* every other letter lower-cased.
CanonicalMIMEHeaderKey(key) ==
    IF \E i \in 1..Len(key) : key[i] = " " THEN key
    ELSE [i \in 1..Len(key) |->
            IF i = 1 \/ key[i - 1] = "-" THEN ToUpperByte(key[i]) ELSE ToLowerByte(key[i])]

EmptyHeader == [k \in {} |-> <<>>]

\* The map h with h[k] set to v.
MapPut(h, k, v) == [x \in DOMAIN h \cup {k} |-> IF x = k THEN v ELSE h[x]]

HeaderAdd(h, key, value) ==
    LET k == Call("CanonicalMIMEHeaderKey", <<key>>)
    IN  MapPut(h, k, (IF k \in DOMAIN h THEN h[k] ELSE <<>>) \o <<value>>)

HeaderSetMutant(h, key, value) == MapPut(h, key, <<value>>)

HeaderSet(h, key, value) == MapPut(h, Call("CanonicalMIMEHeaderKey", <<key>>), <<value>>)

HeaderGet(h, key) ==
    LET k == Call("CanonicalMIMEHeaderKey", <<key>>)
    IN  IF k \notin DOMAIN h \/ Len(h[k]) = 0 THEN <<>> ELSE h[k][1]

HeaderIsSet(h, key) == Call("CanonicalMIMEHeaderKey", <<key>>) \in DOMAIN h

HeaderDel(h, key) ==
    [x \in DOMAIN h \ {Call("CanonicalMIMEHeaderKey", <<key>>)} |-> h[x]]

-----------------------------------------------------------------------------
(* mime.ParseMediaType, as Header.ContentType and parseMessageWithHeader call it. *)

TSpecials == {"(", ")", "<", ">", "@", ",", ";", ":", "\\", "\"", "/", "[", "]", "?", "="}

\* mime.isTokenChar
IsTokenChar(c) == Ord(c) > 32 /\ Ord(c) < 127 /\ c \notin TSpecials

\* The length of the longest prefix of s made of token characters.
RECURSIVE TokenLen(_)
TokenLen(s) == IF s # <<>> /\ IsTokenChar(s[1]) THEN 1 + TokenLen(Tail(s)) ELSE 0

\* mime.consumeToken: <<token, rest>>
consumeToken(s) == LET n == TokenLen(s) IN <<UpTo(s, n), From(s, n)>>

\* The body of a quoted string whose opening quote was consumed: <<ok, value, rest>>.
RECURSIVE QuotedTail(_, _)
QuotedTail(s, acc) ==
    IF s = <<>> THEN <<FALSE, <<>>, <<>>>>
    ELSE IF s[1] = "\"" THEN <<TRUE, acc, Tail(s)>>
    ELSE IF s[1] = "\\" /\ Len(s) >= 2 THEN QuotedTail(From(s, 2), Append(acc, s[2]))
    ELSE IF s[1] = "\r" \/ s[1] = "\n" THEN <<FALSE, <<>>, <<>>>>
    ELSE QuotedTail(Tail(s), Append(acc, s[1]))

\* mime.consumeValue: <<value, rest>>; <<"", v>> when v holds no value.
consumeValue(v) ==
    IF v = <<>> THEN <<<<>>, v>>
    ELSE IF v[1] # "\"" THEN Call("consumeToken", <<v>>)
    ELSE LET q == Call("QuotedTail", <<Tail(v), <<>>>>)
         IN  IF q[1] THEN <<q[2], q[3]>> ELSE <<<<>>, v>>

\* mime.consumeMediaParam: <<param, value, rest>>; param is empty when v does not
\* start with a well-formed "; name=value".
consumeMediaParam(v) ==
    LET r0 == TrimLeft(v)
    IN  IF ~HasPrefix(r0, <<";">>) THEN <<<<>>, <<>>, v>>
        ELSE LET r1 == TrimLeft(Tail(r0))
                 tk == Call("consumeToken", <<r1>>)
                 param == Call("ToLower", <<tk[1]>>)
                 r2 == TrimLeft(tk[2])
             IN  IF param = <<>> \/ ~HasPrefix(r2, <<"=">>) THEN <<<<>>, <<>>, v>>
                 ELSE LET r3 == TrimLeft(Tail(r2))
                          val == Call("consumeValue", <<r3>>)
                      IN  IF val[1] = <<>> /\ val[2] = r3 THEN <<<<>>, <<>>, v>>
                          ELSE <<param, val[1], val[2]>>

\* mime.checkMediaTypeDisposition: TRUE when s is "token" or "token/token".
checkMediaTypeDisposition(s) ==
    LET t == Call("consumeToken", <<s>>)
    IN  /\ t[1] # <<>>
        /\ \/ t[2] = <<>>
           \/ /\ HasPrefix(t[2], <<"/">>)
              /\ LET u == Call("consumeToken", <<Tail(t[2])>>) IN u[1] # <<>> /\ u[2] = <<>>

\* The parameter loop of mime.ParseMediaType: [ok, params].
RECURSIVE MediaParams(_, _)
MediaParams(v, params) ==
    LET w == TrimLeft(v)
    IN  IF w = <<>> THEN [ok |-> TRUE, params |-> params]
        ELSE LET p == Call("consumeMediaParam", <<w>>)
             IN  IF p[1] = <<>>
                 THEN [ok |-> TrimString(p[3]) = <<";">>, params |-> params]
                 ELSE IF p[1] \in DOMAIN params
                 THEN [ok |-> FALSE, params |-> params]
                 ELSE MediaParams(p[3], MapPut(params, p[1], p[2]))

NoParams == [k \in {} |-> <<>>]

\* mime.ParseMediaType: [ok, mediaType, params].  (Parameter continuations,
\* RFC 2231, are not modelled: no input of the model uses them.)
ParseMediaType(v) ==
    LET semi == IndexByte(v, ";")
        i == IF semi = -1 THEN Len(v) ELSE semi
        mediatype == TrimString(Call("ToLower", <<UpTo(v, i)>>))
    IN  IF ~Call("checkMediaTypeDisposition", <<mediatype>>)
        THEN [ok |-> FALSE, mediaType |-> <<>>, params |-> NoParams]
        ELSE LET ps == Call("MediaParams", <<From(v, i), NoParams>>)
             IN  IF ps.ok THEN [ok |-> TRUE, mediaType |-> mediatype, params |-> ps.params]
                 ELSE [ok |-> FALSE, mediaType |-> <<>>, params |-> NoParams]

\* params[key], the empty string when the map has no such key.
Param(params, key) == IF key \in DOMAIN params THEN params[key] ELSE <<>>

sBoundary == <<"b","o","u","n","d","a","r","y">>
sMultipart == <<"m","u","l","t","i","p","a","r","t">>
sMessage == <<"m","e","s","s","a","g","e">>
sText == <<"t","e","x","t">>

\* Header.ContentType: err is "nil", "missing" (ErrHeadersMissingContentType) or
\* "parse" (the error of mime.ParseMediaType).
HeaderContentType(h) ==
    LET contentType == Call("HeaderGet", <<h, sContentType>>)
    IN  IF Len(contentType) > 0
        THEN LET r == Call("ParseMediaType", <<contentType>>)
             IN  IF ~r.ok THEN [mediaType |-> <<>>, params |-> NoParams, err |-> "parse"]
                 ELSE [mediaType |-> r.mediaType, params |-> r.params, err |-> "nil"]
        ELSE [mediaType |-> <<>>, params |-> NoParams, err |-> "missing"]

-----------------------------------------------------------------------------
(* encoding/base64, StdEncoding *)

B64Char(n) ==
    IF n < 26 THEN ByteTab[65 + n]
    ELSE IF n < 52 THEN ByteTab[97 + n - 26]
    ELSE IF n < 62 THEN ByteTab[48 + n - 52]
    ELSE IF n = 62 THEN "+" ELSE "/"

\* The 6-bit value of a base64 character, -1 for any other byte.
B64Val(c) ==
    LET o == Ord(c)
    IN  IF o >= 65 /\ o <= 90 THEN o - 65
        ELSE IF o >= 97 /\ o <= 122 THEN o - 97 + 26
        ELSE IF o >= 48 /\ o <= 57 THEN o - 48 + 52
        ELSE IF c = "+" THEN 62
        ELSE IF c = "/" THEN 63 ELSE -1

\* Encoding.Encode on whole 3-byte groups and, at the end, a padded group.
RECURSIVE Base64Encode(_)
Base64Encode(s) ==
    IF s = <<>> THEN <<>>
    ELSE IF Len(s) = 1
    THEN LET a == Ord(s[1])
         IN  <<B64Char(a \div 4), B64Char((a % 4) * 16), "=", "=">>
    ELSE IF Len(s) = 2
    THEN LET a == Ord(s[1])
             b == Ord(s[2])
         IN  <<B64Char(a \div 4), B64Char((a % 4) * 16 + b \div 16),
               B64Char((b % 16) * 4), "=">>
    ELSE LET a == Ord(s[1])
             b == Ord(s[2])
             c == Ord(s[3])
         IN  <<B64Char(a \div 4), B64Char((a % 4) * 16 + b \div 16),
               B64Char((b % 16) * 4 + c \div 64), B64Char(c % 64)>>
             \o Base64Encode(From(s, 3))

\* The quantum loop of the decoder over input without line breaks: [ok, out].
RECURSIVE Base64Quanta(_, _)
Base64Quanta(s, acc) ==
    IF s = <<>> THEN [ok |-> TRUE, out |-> acc]
    ELSE IF Len(s) < 4 THEN [ok |-> FALSE, out |-> acc]
    ELSE LET a == B64Val(s[1])
             b == B64Val(s[2])
             c == B64Val(s[3])
             d == B64Val(s[4])
             last == Len(s) = 4
         IN  IF a < 0 \/ b < 0 THEN [ok |-> FALSE, out |-> acc]
             ELSE IF s[3] = "="
             THEN [ok |-> s[4] = "=" /\ last,
                   out |-> Append(acc, ByteTab[a * 4 + b \div 16])]
             ELSE IF c < 0 THEN [ok |-> FALSE, out |-> acc]
             ELSE IF s[4] = "="
             THEN [ok |-> last,
                   out |-> acc \o <<ByteTab[a * 4 + b \div 16],
                                    ByteTab[(b % 16) * 16 + c \div 4]>>]
             ELSE IF d < 0 THEN [ok |-> FALSE, out |-> acc]
             ELSE Base64Quanta(From(s, 4),
                     acc \o <<ByteTab[a * 4 + b \div 16],
                              ByteTab[(b % 16) * 16 + c \div 4],
                              ByteTab[(c % 4) * 64 + d]>>)

IsNotNewline(c) == c # "\r" /\ c # "\n"

\* base64.NewDecoder read to its end: CR and LF are filtered out of the input,
\* the rest is decoded quantum by quantum.  [ok, out]
Base64Decode(s) == Call("Base64Quanta", <<SelectSeq(s, IsNotNewline), <<>>>>)

-----------------------------------------------------------------------------
(* mime/quotedprintable *)

\* The value of a hexadecimal digit, -1 for any other byte.
HexVal(c) ==
    LET o == Ord(c)
    IN  IF o >= 48 /\ o <= 57 THEN o - 48
        ELSE IF o >= 65 /\ o <= 70 THEN o - 65 + 10
        ELSE IF o >= 97 /\ o <= 102 THEN o - 97 + 10 ELSE -1

\* "=" and the two upper-case hexadecimal digits of byte b.
HexEscape(b) == <<"=", HexDigits[(Ord(b) \div 16) + 1], HexDigits[(Ord(b) % 16) + 1]>>

\* The bytes of one line after its trailing white space and soft line break are
\* taken off, decoded byte by byte: [ok, out].
RECURSIVE QPLineBytes(_, _)
QPLineBytes(line, acc) ==
    IF line = <<>> THEN [ok |-> TRUE, out |-> acc]
    ELSE LET b == line[1]
         IN  IF b = "="
             THEN IF Len(line) < 3 \/ HexVal(line[2]) < 0 \/ HexVal(line[3]) < 0
                  THEN [ok |-> FALSE, out |-> acc]
                  ELSE QPLineBytes(From(line, 3),
                          Append(acc, ByteTab[HexVal(line[2]) * 16 + HexVal(line[3])]))
             ELSE IF b = "\t" \/ b = "\r" \/ b = "\n"
             THEN QPLineBytes(Tail(line), Append(acc, b))
             ELSE IF Ord(b) < 32 \/ Ord(b) > 126
             THEN [ok |-> FALSE, out |-> acc]
             ELSE QPLineBytes(Tail(line), Append(acc, b))

\* quotedprintable.Reader read to its end, line by line: [ok, out].
RECURSIVE QPDecode(_)
QPDecode(s) ==
    IF s = <<>> THEN [ok |-> TRUE, out |-> <<>>]
    ELSE LET nl == IndexByte(s, "\n")
             wholeLine == IF nl = -1 THEN s ELSE UpTo(s, nl + 1)
             rest == IF nl = -1 THEN <<>> ELSE From(s, nl + 1)
             hasLF == HasSuffix(wholeLine, <<"\n">>)
             hasCR == HasSuffix(wholeLine, CRLF)
             trimmed == TrimRight(wholeLine)
             rightStripped == From(wholeLine, Len(trimmed))
             soft == HasSuffix(trimmed, <<"=">>)
             softOk == HasPrefix(rightStripped, <<"\n">>) \/ HasPrefix(rightStripped, CRLF)
             line == IF soft THEN UpTo(trimmed, Len(trimmed) - 1)
                     ELSE IF hasLF THEN trimmed \o (IF hasCR THEN CRLF ELSE <<"\n">>)
                     ELSE trimmed
             this == Call("QPLineBytes", <<line, <<>>>>)
         IN  IF ~this.ok \/ (soft /\ ~softOk) THEN [ok |-> FALSE, out |-> this.out]
             ELSE LET more == QPDecode(rest)
                  IN  [ok |-> more.ok, out |-> this.out \o more.out]

-----------------------------------------------------------------------------
(* mime.QEncoding.Encode and mime.WordDecoder.DecodeHeader (RFC 2047) *)

sUTF8 == <<"U","T","F","-","8">>
sUTF8Lower == <<"u","t","f","-","8">>
sUSASCII == <<"u","s","-","a","s","c","i","i">>

\* mime.needsEncoding
needsEncoding(s) ==
    \E i \in 1..Len(s) : (Ord(s[i]) < 32 \/ Ord(s[i]) > 126) /\ s[i] # "\t"

\* WordEncoder.qEncode
RECURSIVE qEncode(_)
qEncode(s) ==
    IF s = <<>> THEN <<>>
    ELSE LET b == s[1]
             o == Ord(b)
         IN  (IF b = " " THEN <<"_">>
              ELSE IF o >= 33 /\ o <= 126 /\ b # "=" /\ b # "?" /\ b # "_" THEN <<b>>
              ELSE HexEscape(b))
             \o qEncode(Tail(s))

\* mime.QEncoding.Encode(charset, s): s itself when it needs no encoding, else one
\* encoded word.
QEncodingEncode(charset, s) ==
    IF ~needsEncoding(s) THEN s
    ELSE <<"=", "?">> \o charset \o <<"?", "q", "?">> \o Call("qEncode", <<s>>) \o <<"?", "=">>

\* mime.qDecode: [ok, out]
RECURSIVE qDecode(_, _)
qDecode(s, acc) ==
    IF s = <<>> THEN [ok |-> TRUE, out |-> acc]
    ELSE LET c == s[1]
         IN  IF c = "_" THEN qDecode(Tail(s), Append(acc, " "))
             ELSE IF c = "="
             THEN IF Len(s) < 3 \/ HexVal(s[2]) < 0 \/ HexVal(s[3]) < 0
                  THEN [ok |-> FALSE, out |-> acc]
                  ELSE qDecode(From(s, 3),
                          Append(acc, ByteTab[HexVal(s[2]) * 16 + HexVal(s[3])]))
             ELSE IF (Ord(c) <= 126 /\ Ord(c) >= 32) \/ c = "\n" \/ c = "\r" \/ c = "\t"
             THEN qDecode(Tail(s), Append(acc, c))
             ELSE [ok |-> FALSE, out |-> acc]

\* mime.decode: the text of an encoded word under its encoding letter.
WordDecode(encoding, text) ==
    IF encoding = "B" \/ encoding = "b" THEN Call("Base64Decode", <<text>>)
    ELSE IF encoding = "Q" \/ encoding = "q" THEN Call("qDecode", <<text, <<>>>>)
    ELSE [ok |-> FALSE, out |-> <<>>]

\* WordDecoder.convert: the charsets it handles without a CharsetReader, for content
\* that is already UTF-8 (utf-8) or ASCII (us-ascii).
ConvertOk(charset, content) ==
    \/ Call("ToLower", <<charset>>) = sUTF8Lower
    \/ Call("ToLower", <<charset>>) = sUSASCII /\ \A i \in 1..Len(content) : Ord(content[i]) < 128

hasNonWhitespace(s) ==
    \E i \in 1..Len(s) : s[i] # " " /\ s[i] # "\t" /\ s[i] # "\n" /\ s[i] # "\r"

\* The loop of WordDecoder.DecodeHeader: buf is what was written so far.
RECURSIVE DecodeHeaderLoop(_, _, _)
DecodeHeaderLoop(header, buf, betweenWords) ==
    LET start == Index(header, <<"=", "?">>)
        cur0 == start + 2
        i == Index(From(header, cur0), <<"?">>)
        charset == SubSeq(header, cur0 + 1, cur0 + i)
        cur1 == cur0 + i + 1
        encoding == header[cur1 + 1]
        cur2 == cur1 + 2
        j == Index(From(header, cur2), <<"?", "=">>)
        text == SubSeq(header, cur2 + 1, cur2 + j)
        end == cur2 + j + 2
        content == Call("WordDecode", <<encoding, text>>)
    IN  IF start = -1 \/ i = -1 \/ Len(header) < cur1 + 4 THEN buf \o header
        ELSE IF header[cur1 + 2] # "?" \/ j = -1 THEN buf \o header
        ELSE IF ~content.ok \/ ~Call("ConvertOk", <<charset, content.out>>)
        THEN DecodeHeaderLoop(From(header, start + 2), buf \o UpTo(header, start + 2), FALSE)
        ELSE DecodeHeaderLoop(From(header, end),
                buf \o (IF start > 0 /\ (~betweenWords \/ hasNonWhitespace(UpTo(header, start)))
                        THEN UpTo(header, start) ELSE <<>>)
                    \o content.out,
                TRUE)

\* WordDecoder.DecodeHeader
DecodeHeader(header) == Call("DecodeHeaderLoop", <<header, <<>>, FALSE>>)

\* decodeRFC2047: the decoded value, or s when nothing was decoded.
decodeRFC2047(s) ==
    LET decoded == Call("DecodeHeader", <<s>>)
    IN  IF Len(decoded) = 0 THEN s ELSE decoded

-----------------------------------------------------------------------------
(* The sink: the io.Writer under all the writers.  It takes every Write whole  *)
(* until its failAt-th call (0: it never fails); that call and every later one *)
(* write nothing and return an error.  late counts the calls made after the    *)
(* failing one.                                                                *)

NewSink(failAt) == [buf |-> <<>>, calls |-> 0, failAt |-> failAt, late |-> 0]

\* w.Write(p): [s, n, err]
SinkWrite(s, p) ==
    LET k == s.calls + 1
    IN  IF s.failAt # 0 /\ k >= s.failAt
        THEN [s |-> [s EXCEPT !.calls = k, !.late = IF k > s.failAt THEN @ + 1 ELSE @],
              n |-> 0, err |-> "io"]
        ELSE [s |-> [s EXCEPT !.calls = k, !.buf = @ \o p], n |-> Len(p), err |-> "nil"]

-----------------------------------------------------------------------------
(* headerWriter and base64Writer: [w, curLineLen, maxLineLen] over the sink w. *)

MaxHeaderLineLength == 78
MaxHeaderTotalLength == 998
MaxBodyLineLength == 76

\* headerWriter.Write: [w, n, err]
RECURSIVE headerWriterWrite(_, _)
headerWriterWrite(w, p) ==
    IF Len(p) + w.curLineLen > w.maxLineLen
    THEN LET width == w.maxLineLen - w.curLineLen
             lastSpace == LastIndexByte(UpTo(p, width), " ")
             toWrite == IF lastSpace > 0 THEN lastSpace ELSE width
             r1 == Call("SinkWrite", <<w.w, UpTo(p, toWrite)>>)
             r2 == Call("SinkWrite", <<r1.s, <<"\r", "\n", " ">>>>)
             rest == headerWriterWrite([w EXCEPT !.w = r2.s, !.curLineLen = 1],
                                       From(p, toWrite))
         IN  IF r1.err # "nil"
             THEN [w |-> [w EXCEPT !.w = r1.s], n |-> r1.n, err |-> r1.err]
             ELSE IF r2.err # "nil"
             THEN [w |-> [w EXCEPT !.w = r2.s], n |-> r1.n + r2.n, err |-> r2.err]
             ELSE [w |-> rest.w, n |-> r1.n + r2.n + rest.n, err |-> rest.err]
    ELSE LET r == Call("SinkWrite", <<w.w, p>>)
         IN  [w |-> [w EXCEPT !.w = r.s, !.curLineLen = @ + r.n], n |-> r.n, err |-> r.err]

RECURSIVE base64WriterWriteMutant(_, _)
base64WriterWriteMutant(w, p) ==
    IF Len(p) + w.curLineLen >= w.maxLineLen
    THEN LET toWrite == w.maxLineLen - w.curLineLen
             r1 == Call("SinkWrite", <<w.w, UpTo(p, toWrite)>>)
             r2 == Call("SinkWrite", <<r1.s, CRLF>>)
             rest == base64WriterWriteMutant([w EXCEPT !.w = r2.s, !.curLineLen = 0],
                                             From(p, toWrite))
         IN  IF r1.err # "nil"
             THEN [w |-> [w EXCEPT !.w = r1.s], n |-> r1.n, err |-> r1.err]
             ELSE IF r2.err # "nil"
             THEN [w |-> [w EXCEPT !.w = r2.s], n |-> r1.n + r2.n, err |-> r2.err]
             ELSE [w |-> rest.w, n |-> r1.n + r2.n + rest.n, err |-> rest.err]
    ELSE LET r == Call("SinkWrite", <<w.w, p>>)
         IN  [w |-> [w EXCEPT !.w = r.s, !.curLineLen = @ + r.n], n |-> r.n, err |-> r.err]

\* base64Writer.Write: [w, n, err]
RECURSIVE base64WriterWrite(_, _)
base64WriterWrite(w, p) ==
    IF Len(p) + w.curLineLen > w.maxLineLen
    THEN LET toWrite == w.maxLineLen - w.curLineLen
             r1 == Call("SinkWrite", <<w.w, UpTo(p, toWrite)>>)
             r2 == Call("SinkWrite", <<r1.s, CRLF>>)
             rest == base64WriterWrite([w EXCEPT !.w = r2.s, !.curLineLen = 0],
                                       From(p, toWrite))
         IN  IF r1.err # "nil"
             THEN [w |-> [w EXCEPT !.w = r1.s], n |-> r1.n, err |-> r1.err]
             ELSE IF r2.err # "nil"
             THEN [w |-> [w EXCEPT !.w = r2.s], n |-> r1.n + r2.n, err |-> r2.err]
             ELSE [w |-> rest.w, n |-> r1.n + r2.n + rest.n, err |-> rest.err]
    ELSE LET r == Call("SinkWrite", <<w.w, p>>)
         IN  [w |-> [w EXCEPT !.w = r.s, !.curLineLen = @ + r.n], n |-> r.n, err |-> r.err]

-----------------------------------------------------------------------------
(* Header.WriteTo *)

\* The keys of h in the order a range over the map visits them.  Go leaves that
\* order open: ord, a sequence of keys, decides it for the keys it names, and the
\* keys it does not name follow.
RECURSIVE SetToSeq(_)
SetToSeq(S) ==
    IF S = {} THEN <<>>
    ELSE LET x == CHOOSE y \in S : TRUE IN <<x>> \o SetToSeq(S \ {x})

RangeOrder(h, ord) ==
    LET InH(k) == k \in DOMAIN h
    IN  SelectSeq(ord, InH) \o SetToSeq(DOMAIN h \ {ord[i] : i \in 1..Len(ord)})

\* The inner loops of Header.WriteTo over the strings of one field value and over
\* the values of one field, the early return on a failed write included:
\* [w, total, err].
RECURSIVE WriteStrings(_, _, _)
WriteStrings(writer, strs, total) ==
    IF strs = <<>> THEN [w |-> writer, total |-> total, err |-> "nil"]
    ELSE LET r == Call("headerWriterWrite", <<writer, strs[1]>>)
         IN  IF r.err # "nil" THEN [w |-> r.w, total |-> total, err |-> r.err]
             ELSE WriteStrings(r.w, Tail(strs), total + r.n)

RECURSIVE WriteValues(_, _, _, _)
WriteValues(writer, field, values, total) ==
    IF values = <<>> THEN [w |-> writer, total |-> total, err |-> "nil"]
    ELSE LET val == TrimString(values[1])
             r == Call("WriteStrings", <<[writer EXCEPT !.curLineLen = 0],
                               <<field, <<":", " ">>, Call("QEncodingEncode", <<sUTF8, val>>), CRLF>>,
                               total>>)
         IN  IF r.err # "nil" THEN r
             ELSE WriteValues(r.w, field, Tail(values), r.total)

RECURSIVE WriteFields(_, _, _, _)
\* WriteFields writing the Bcc field like any other.
WriteFieldsMutant(writer, h, fields, total) ==
    IF fields = <<>> THEN [w |-> writer, total |-> total, err |-> "nil"]
    ELSE LET r == Call("WriteValues", <<writer, fields[1], h[fields[1]], total>>)
         IN  IF r.err # "nil" THEN r
             ELSE Call("WriteFields", <<r.w, h, Tail(fields), r.total>>)

WriteFields(writer, h, fields, total) ==
    IF fields = <<>> THEN [w |-> writer, total |-> total, err |-> "nil"]
    ELSE IF fields[1] = sBcc THEN WriteFields(writer, h, Tail(fields), total)
    ELSE LET r == Call("WriteValues", <<writer, fields[1], h[fields[1]], total>>)
         IN  IF r.err # "nil" THEN r
             ELSE WriteFields(r.w, h, Tail(fields), r.total)

\* Header.WriteTo(w): [s, total, err]
HeaderWriteTo(h, s, ord) ==
    LET writer == [w |-> s, curLineLen |-> 0, maxLineLen |-> MaxHeaderTotalLength]
        r == Call("WriteFields", <<writer, h, Call("RangeOrder", <<h, ord>>), 0>>)
    IN  [s |-> r.w.w, total |-> r.total, err |-> r.err]

-----------------------------------------------------------------------------
(* quotedprintable.Writer over the sink: [line, cr, w, err].  line is the buffer  *)
(* of the current output line; it goes to the sink with every line break the     *)
(* writer inserts and at Close.                                                  *)

QPLineMaxLen == 76

NewQPWriter(s) == [line |-> <<>>, cr |-> FALSE, w |-> s, err |-> "nil"]

\* Writer.flush
QPFlush(q) ==
    LET r == Call("SinkWrite", <<q.w, q.line>>)
    IN  IF r.err # "nil" THEN [q EXCEPT !.w = r.s, !.err = r.err]
        ELSE [q EXCEPT !.w = r.s, !.line = <<>>]

\* Writer.insertCRLF
QPInsertCRLF(q) == Call("QPFlush", <<[q EXCEPT !.line = @ \o CRLF]>>)

\* Writer.insertSoftLineBreak
QPInsertSoftLineBreak(q) == Call("QPInsertCRLF", <<[q EXCEPT !.line = Append(@, "=")]>>)

\* Writer.encode
QPEncodeByte(q, b) ==
    LET q1 == IF QPLineMaxLen - 1 - Len(q.line) < 3 THEN Call("QPInsertSoftLineBreak", <<q>>) ELSE q
    IN  IF q1.err # "nil" THEN q1 ELSE [q1 EXCEPT !.line = @ \o HexEscape(b)]

\* Writer.checkLastByte
QPCheckLastByte(q) ==
    IF q.line = <<>> THEN q
    ELSE LET b == q.line[Len(q.line)]
         IN  IF b = " " \/ b = "\t"
             THEN Call("QPEncodeByte", <<[q EXCEPT !.line = UpTo(@, Len(@) - 1)], b>>)
             ELSE q

\* Writer.write: the bytes that need no encoding.
RECURSIVE QPWriteBatch(_, _)
QPWriteBatch(q, p) ==
    IF p = <<>> \/ q.err # "nil" THEN q
    ELSE LET b == p[1]
         IN  IF b = "\n" \/ b = "\r"
             THEN IF q.cr /\ b = "\n"
                  THEN QPWriteBatch([q EXCEPT !.cr = FALSE], Tail(p))
                  ELSE LET q1 == Call("QPCheckLastByte", <<[q EXCEPT !.cr = IF b = "\r" THEN TRUE ELSE @]>>)
                           q2 == IF q1.err # "nil" THEN q1 ELSE Call("QPInsertCRLF", <<q1>>)
                       IN  QPWriteBatch(q2, Tail(p))
             ELSE LET q1 == IF Len(q.line) = QPLineMaxLen - 1
                            THEN Call("QPInsertSoftLineBreak", <<q>>) ELSE q
                  IN  IF q1.err # "nil" THEN q1
                      ELSE QPWriteBatch([q1 EXCEPT !.line = Append(@, b), !.cr = FALSE], Tail(p))

\* The bytes Writer.Write hands on in batches (text mode: Binary is false).
QPSimple(b) ==
    \/ Ord(b) >= 33 /\ Ord(b) <= 126 /\ b # "="
    \/ b = " " \/ b = "\t" \/ b = "\n" \/ b = "\r"

\* The loop of Writer.Write over p[i], n being the bytes taken so far: [q, n, err]
RECURSIVE QPWriteLoop(_, _, _, _)
QPWriteLoop(q, p, i, n) ==
    IF i = Len(p)
    THEN IF n = Len(p) THEN [q |-> q, n |-> n, err |-> "nil"]
         ELSE LET q1 == Call("QPWriteBatch", <<q, From(p, n)>>)
              IN  IF q1.err # "nil" THEN [q |-> q1, n |-> n, err |-> q1.err]
                  ELSE [q |-> q1, n |-> Len(p), err |-> "nil"]
    ELSE IF QPSimple(p[i + 1]) THEN QPWriteLoop(q, p, i + 1, n)
    ELSE LET q1 == IF i > n THEN Call("QPWriteBatch", <<q, SubSeq(p, n + 1, i)>>) ELSE q
             n1 == IF i > n THEN i ELSE n
             q2 == Call("QPEncodeByte", <<q1, p[i + 1]>>)
         IN  IF q1.err # "nil" THEN [q |-> q1, n |-> n, err |-> q1.err]
             ELSE IF q2.err # "nil" THEN [q |-> q2, n |-> n1, err |-> q2.err]
             ELSE QPWriteLoop(q2, p, i + 1, n1 + 1)

\* Writer.Write(p): [q, n, err]; the writer's error does not stick, each call
\* starts afresh.
QPWrite(q, p) ==
    LET r == Call("QPWriteLoop", <<[q EXCEPT !.err = "nil"], p, 0, 0>>)
    IN  [q |-> r.q, n |-> r.n, err |-> r.err]

\* Writer.Close(): [q, err]
QPClose(q) ==
    LET q1 == Call("QPCheckLastByte", <<[q EXCEPT !.err = "nil"]>>)
        q2 == IF q1.err # "nil" THEN q1 ELSE Call("QPFlush", <<q1>>)
    IN  [q |-> q2, err |-> q2.err]

-----------------------------------------------------------------------------
(* base64.NewEncoder over a base64Writer: [err, buf, w].  buf holds the one or  *)
(* two trailing bytes that wait for Close.                                      *)

B64ChunkIn == 768     \* len(e.out) / 4 * 3, e.out being 1024 bytes

NewB64Encoder(bw) == [err |-> "nil", buf |-> <<>>, w |-> bw]

\* The loop over the large interior chunks of encoder.Write: [e, n, p]
RECURSIVE B64WriteChunks(_, _, _)
B64WriteChunks(e, p, n) ==
    IF Len(p) < 3 THEN [e |-> e, n |-> n, p |-> p]
    ELSE LET nn == IF B64ChunkIn > Len(p) THEN Len(p) - (Len(p) % 3) ELSE B64ChunkIn
             r == Call("base64WriterWrite", <<e.w, Call("Base64Encode", <<UpTo(p, nn)>>)>>)
         IN  IF r.err # "nil"
             THEN [e |-> [e EXCEPT !.w = r.w, !.err = r.err], n |-> n, p |-> p]
             ELSE B64WriteChunks([e EXCEPT !.w = r.w], From(p, nn), n + nn)

\* encoder.Write(p) on a fresh encoder: [e, n, err]
B64EncoderWrite(e, p) ==
    IF e.err # "nil" THEN [e |-> e, n |-> 0, err |-> e.err]
    ELSE LET r == Call("B64WriteChunks", <<e, p, 0>>)
         IN  IF r.e.err # "nil" THEN [e |-> r.e, n |-> r.n, err |-> r.e.err]
             ELSE [e |-> [r.e EXCEPT !.buf = r.p], n |-> r.n + Len(r.p), err |-> "nil"]

\* encoder.Close(): [e, err]
B64EncoderClose(e) ==
    IF e.err = "nil" /\ Len(e.buf) > 0
    THEN LET r == Call("base64WriterWrite", <<e.w, Call("Base64Encode", <<e.buf>>)>>)
         IN  [e |-> [e EXCEPT !.w = r.w, !.buf = <<>>, !.err = r.err], err |-> r.err]
    ELSE [e |-> e, err |-> e.err]

-----------------------------------------------------------------------------
(* Message: [Header, Preamble, Epilogue, Body, Parts, SubMessage].  Preamble,    *)
(* Epilogue and Body are byte strings (a nil slice is the empty one), Parts is a  *)
(* sequence of Messages, SubMessage is <<>> (nil) or <<m>>.                       *)

NewMessageRecord(h, preamble, epilogue, body, parts, subMessage) ==
    [Header |-> h, Preamble |-> preamble, Epilogue |-> epilogue, Body |-> body,
     Parts |-> parts, SubMessage |-> subMessage]

sCTEQuotedPrintableLine ==
    sContentTransferEncoding \o <<":", " ">>
    \o <<"q","u","o","t","e","d","-","p","r","i","n","t","a","b","l","e">> \o CRLF \o CRLF
sCTEBase64Line ==
    sContentTransferEncoding \o <<":", " ">> \o <<"b","a","s","e","6","4">> \o CRLF \o CRLF

\* Message.writeText: [s, total, err]
writeText(m, s, total) ==
    LET r == Call("SinkWrite", <<s, sCTEQuotedPrintableLine>>)
        wrt == Call("QPWrite", <<NewQPWriter(r.s), m.Body>>)
        cls == Call("QPClose", <<wrt.q>>)
    IN  IF r.err # "nil" THEN [s |-> r.s, total |-> total + r.n, err |-> r.err]
        ELSE [s |-> cls.q.w, total |-> total + r.n + wrt.n, err |-> wrt.err]

\* Message.writeBase64: [s, total, err]
writeBase64(m, s, total) ==
    LET r == Call("SinkWrite", <<s, sCTEBase64Line>>)
        bw == [w |-> r.s, curLineLen |-> 0, maxLineLen |-> MaxBodyLineLength]
        wrt == Call("B64EncoderWrite", <<NewB64Encoder(bw), m.Body>>)
        cls == Call("B64EncoderClose", <<wrt.e>>)
    IN  IF r.err # "nil" THEN [s |-> r.s, total |-> total + r.n, err |-> r.err]
        ELSE [s |-> cls.e.w.w, total |-> total + r.n + wrt.n, err |-> wrt.err]

\* Message.writeBody: [s, total, err]
writeBody(m, s, total) ==
    LET contentType == Call("HeaderGet", <<m.Header, sContentType>>)
    IN  IF Len(contentType) > 0 /\ ~Call("HeaderIsSet", <<m.Header, sContentTransferEncoding>>)
        THEN IF HasPrefix(contentType, sText) THEN Call("writeText", <<m, s, total>>)
             ELSE Call("writeBase64", <<m, s, total>>)
        ELSE LET r1 == Call("SinkWrite", <<s, CRLF>>)
                 r2 == Call("SinkWrite", <<r1.s, m.Body>>)
             IN  IF r1.err # "nil" THEN [s |-> r1.s, total |-> total + r1.n, err |-> r1.err]
                 ELSE [s |-> r2.s, total |-> total + r1.n + r2.n, err |-> r2.err]

\* Message.WriteTo and Message.writeParts: [s, total, err].  err is "nil", "io" (the
\* sink failed), "parse" (the Content-Type does not parse) or "panic" (a nil
\* SubMessage was dereferenced).  ord decides the order of every header's fields.
RECURSIVE MessageWriteTo(_, _, _), writePartsLoop(_, _, _, _, _)

\* The loop of writeParts over m.Parts.
writePartsLoop(parts, boundary, s, total, ord) ==
    IF parts = <<>> THEN [s |-> s, total |-> total, err |-> "nil"]
    ELSE LET r1 == Call("SinkWrite", <<s, CRLF \o <<"-", "-">> \o boundary \o CRLF>>)
             r2 == Call("MessageWriteTo", <<parts[1], r1.s, ord>>)
         IN  IF r1.err # "nil" THEN [s |-> r1.s, total |-> total + r1.n, err |-> r1.err]
             ELSE IF r2.err # "nil"
             THEN [s |-> r2.s, total |-> total + r1.n + r2.total, err |-> r2.err]
             ELSE writePartsLoop(Tail(parts), boundary, r2.s, total + r1.n + r2.total, ord)

writePartsMutant(m, boundary, s, total, ord) ==
    LET r0 == Call("SinkWrite", <<s, m.Preamble \o CRLF>>)
        r1 == Call("writePartsLoop", <<m.Parts, boundary, r0.s, total + r0.n, ord>>)
        r2 == Call("SinkWrite", <<r1.s, CRLF \o <<"-", "-">> \o boundary \o <<"-", "-">> \o CRLF>>)
        r3 == IF Len(m.Epilogue) > 0
              THEN Call("SinkWrite", <<r2.s, m.Epilogue \o CRLF>>)
              ELSE [s |-> r2.s, n |-> 0, err |-> "nil"]
    IN  [s |-> r3.s, total |-> r1.total + r2.n + r3.n, err |-> r3.err]

writeParts(m, boundary, s, total, ord) ==
    LET r0 == IF Len(m.Preamble) > 0
              THEN Call("SinkWrite", <<s, m.Preamble \o CRLF>>)
              ELSE [s |-> s, n |-> 0, err |-> "nil"]
        r1 == Call("writePartsLoop", <<m.Parts, boundary, r0.s, total + r0.n, ord>>)
        r2 == Call("SinkWrite", <<r1.s, CRLF \o <<"-", "-">> \o boundary \o <<"-", "-">> \o CRLF>>)
        r3 == IF Len(m.Epilogue) > 0
              THEN Call("SinkWrite", <<r2.s, m.Epilogue \o CRLF>>)
              ELSE [s |-> r2.s, n |-> 0, err |-> "nil"]
    IN  IF r0.err # "nil" THEN [s |-> r0.s, total |-> total + r0.n, err |-> r0.err]
        ELSE IF r1.err # "nil" THEN r1
        ELSE IF r2.err # "nil" THEN [s |-> r2.s, total |-> r1.total + r2.n, err |-> r2.err]
        ELSE [s |-> r3.s, total |-> r1.total + r2.n + r3.n, err |-> r3.err]

MessageWriteTo(m, s, ord) ==
    LET rh == Call("HeaderWriteTo", <<m.Header, s, ord>>)
        ct == Call("HeaderContentType", <<m.Header>>)
        hasParts == HasPrefix(ct.mediaType, sMultipart)
        hasSubMessage == HasPrefix(ct.mediaType, sMessage)
        r1 == Call("SinkWrite", <<rh.s, CRLF>>)
        total == rh.total + r1.n
    IN  IF rh.err # "nil" THEN rh
        ELSE IF ct.err = "parse" THEN [s |-> rh.s, total |-> rh.total, err |-> "parse"]
        ELSE IF ~hasParts /\ ~hasSubMessage THEN Call("writeBody", <<m, rh.s, rh.total>>)
        ELSE IF r1.err # "nil" THEN [s |-> r1.s, total |-> total, err |-> r1.err]
        ELSE IF hasSubMessage
        THEN IF m.SubMessage = <<>> THEN [s |-> r1.s, total |-> total, err |-> "panic"]
             ELSE LET r2 == MessageWriteTo(m.SubMessage[1], r1.s, ord)
                  IN  [s |-> r2.s, total |-> total + r2.total, err |-> r2.err]
        ELSE Call("writeParts", <<m, Param(ct.params, sBoundary), r1.s, total, ord>>)

\* Message.Bytes: [bytes, err]
MessageBytes(m, ord) ==
    LET r == Call("MessageWriteTo", <<m, NewSink(0), ord>>)
    IN  [bytes |-> r.s.buf, err |-> r.err]

-----------------------------------------------------------------------------
(* The constructors of src/email/constructor.go.  RandomBoundary is not part of *)
(* the sources at hand: the boundary it returns is the argument b here.         *)

sTextPlainUTF8 ==
    <<"t","e","x","t","/","p","l","a","i","n",";"," ",
      "c","h","a","r","s","e","t","=","\"","U","T","F","-","8","\"">>
sTextHTMLUTF8 ==
    <<"t","e","x","t","/","h","t","m","l",";"," ",
      "c","h","a","r","s","e","t","=","\"","U","T","F","-","8","\"">>
sOctetStream ==
    <<"a","p","p","l","i","c","a","t","i","o","n","/",
      "o","c","t","e","t","-","s","t","r","e","a","m">>
sMultipartSlash == <<"m","u","l","t","i","p","a","r","t","/">>
sBoundaryEqQuote == <<";"," ","b","o","u","n","d","a","r","y","=","\"">>
sMixed == <<"m","i","x","e","d">>
sAlternative == <<"a","l","t","e","r","n","a","t","i","v","e">>
sRelated == <<"r","e","l","a","t","e","d">>
sAttachmentFilename ==
    <<"a","t","t","a","c","h","m","e","n","t",";"," ",
      "f","i","l","e","n","a","m","e","=","\"">>
sInlineFilename ==
    <<"i","n","l","i","n","e",";"," ","f","i","l","e","n","a","m","e","=","\"">>

NewPartMultipart(multipartSubType, parts, b) ==
    NewMessageRecord(
        Call("HeaderSet", <<EmptyHeader, sContentType,
                  sMultipartSlash \o multipartSubType \o sBoundaryEqQuote \o b \o <<"\"">>>>),
        <<>>, <<>>, <<>>, parts, <<>>)

NewPartText(textPlain) ==
    NewMessageRecord(Call("HeaderSet", <<EmptyHeader, sContentType, sTextPlainUTF8>>),
                     <<>>, <<>>, textPlain, <<>>, <<>>)

NewPartHTML(html) ==
    NewMessageRecord(Call("HeaderSet", <<EmptyHeader, sContentType, sTextHTMLUTF8>>),
                     <<>>, <<>>, html, <<>>, <<>>)

NewPartFromBytes(rawBytes, contentType, contentDisposition, contentID) ==
    LET h1 == IF Len(contentType) > 0
              THEN Call("HeaderSet", <<EmptyHeader, sContentType, contentType>>)
              ELSE Call("HeaderSet", <<EmptyHeader, sContentType, sOctetStream>>)
        h2 == IF Len(contentDisposition) > 0
              THEN Call("HeaderSet", <<h1, sContentDisposition, contentDisposition>>) ELSE h1
        h3 == IF Len(contentID) > 0
              THEN Call("HeaderSet", <<h2, sContentID, <<"<">> \o contentID \o <<">">>>>) ELSE h2
    IN  NewMessageRecord(h3, <<>>, <<>>, rawBytes, <<>>, <<>>)

\* NewPartAttachmentFromBytes; mimeType is what mime.TypeByExtension makes of the
\* file name's extension.
NewPartAttachmentFromBytes(rawBytes, filename, mimeType) ==
    Call("NewPartFromBytes", <<rawBytes, mimeType, sAttachmentFilename \o filename \o <<"\"">>, <<>>>>)

\* NewPartInlineFromBytes
NewPartInlineFromBytes(rawBytes, filename, mimeType, contentID) ==
    Call("NewPartFromBytes", <<rawBytes, mimeType, sInlineFilename \o filename \o <<"\"">>, contentID>>)

\* NewMessage; b1 and b2 are the boundaries RandomBoundary returns, in call order.
NewMessage(headers, textPlain, html, attachments, b1, b2) ==
    LET h == Call("HeaderSet", <<headers, sContentType,
                       sMultipartSlash \o sMixed \o sBoundaryEqQuote \o b1 \o <<"\"">>>>)
        alternativePart ==
            Call("NewPartMultipart", <<sAlternative, <<Call("NewPartText", <<textPlain>>), Call("NewPartHTML", <<html>>)>>, b2>>)
    IN  NewMessageRecord(h, <<>>, <<>>, <<>>, <<alternativePart>> \o attachments, <<>>)

\* NewMessageWithInlines; b1, b2, b3 are the boundaries in call order.
NewMessageWithInlines(headers, textPlain, html, inlines, attachments, b1, b2, b3) ==
    LET h == Call("HeaderSet", <<headers, sContentType,
                       sMultipartSlash \o sMixed \o sBoundaryEqQuote \o b1 \o <<"\"">>>>)
        relatedPart == Call("NewPartMultipart", <<sRelated, <<Call("NewPartHTML", <<html>>)>> \o inlines, b2>>)
        alternativePart ==
            Call("NewPartMultipart", <<sAlternative, <<Call("NewPartText", <<textPlain>>), relatedPart>>, b3>>)
    IN  NewMessageRecord(h, <<>>, <<>>, <<>>, <<alternativePart>> \o attachments, <<>>)

-----------------------------------------------------------------------------
(* Readers.  A reader over data held in memory is the pair [d, e]: the bytes  *)
(* still to be read and the error the reader reports once they are consumed   *)
(* ("eof", or "parse" when a decoder met malformed input, or "unexpectedEOF").*)

NewReader(d) == [d |-> d, e |-> "eof"]

\* The error a caller of ioutil.ReadAll or of a parser sees for reader error e.
ErrOf(e) == IF e = "eof" THEN "nil" ELSE e

\* ioutil.ReadAll: [b, err]
ReadAll(r) == [b |-> r.d, err |-> ErrOf(r.e)]

\* leftTrimReader.Read, read to its end: the white space at the head of the
\* stream is discarded, the rest is delegated.
leftTrimReaderRead(r) == [r EXCEPT !.d = TrimLeft(r.d)]

\* contentReader: [h, r]
contentReader(headers, bodyReader) ==
    IF Call("HeaderGet", <<headers, sContentTransferEncoding>>)
         = <<"q","u","o","t","e","d","-","p","r","i","n","t","a","b","l","e">>
    THEN LET dec == Call("QPDecode", <<bodyReader.d>>)
         IN  [h |-> Call("HeaderDel", <<headers, sContentTransferEncoding>>),
              r |-> [d |-> dec.out, e |-> IF dec.ok THEN bodyReader.e ELSE "parse"]]
    ELSE IF Call("ToLower", <<HeaderGet(headers, sContentTransferEncoding)>>) = <<"b","a","s","e","6","4">>
    THEN LET dec == Call("Base64Decode", <<bodyReader.d>>)
         IN  [h |-> Call("HeaderDel", <<headers, sContentTransferEncoding>>),
              r |-> [d |-> dec.out, e |-> IF dec.ok THEN bodyReader.e ELSE "parse"]]
    ELSE [h |-> headers, r |-> bodyReader]

\* textproto.Reader.readLineSlice: [line, rest, ok]; the line comes without its
\* "\n" or "\r\n"; ok is FALSE at the end of the data.
ReadLine(d) ==
    LET nl == IndexByte(d, "\n")
        line == IF nl = -1 THEN d ELSE UpTo(d, nl)
    IN  IF d = <<>> THEN [line |-> <<>>, rest |-> <<>>, ok |-> FALSE]
        ELSE [line |-> IF nl # -1 /\ HasSuffix(line, <<"\r">>)
                       THEN UpTo(line, Len(line) - 1) ELSE line,
              rest |-> IF nl = -1 THEN <<>> ELSE From(d, nl + 1),
              ok |-> TRUE]

IsLWSP(c) == c = " " \/ c = "\t"

\* The number of leading spaces and tabs of s.
RECURSIVE LeadingLWSP(_)
LeadingLWSP(s) == IF s # <<>> /\ IsLWSP(s[1]) THEN 1 + LeadingLWSP(Tail(s)) ELSE 0

\* mime/multipart skipLWSPChar
skipLWSPChar(b) == From(b, LeadingLWSP(b))

\* textproto trim: spaces and tabs off both ends.
RECURSIVE trim(_)
trim(s) ==
    IF s # <<>> /\ IsLWSP(s[1]) THEN trim(Tail(s))
    ELSE IF s # <<>> /\ IsLWSP(s[Len(s)]) THEN trim(UpTo(s, Len(s) - 1))
    ELSE s

\* s without its trailing spaces.
RECURSIVE TrimRightSP(_)
TrimRightSP(s) ==
    IF s # <<>> /\ s[Len(s)] = " " THEN TrimRightSP(UpTo(s, Len(s) - 1)) ELSE s

\* The continuation lines of textproto.Reader.readContinuedLineSlice: [buf, rest]
RECURSIVE ContinuationLines(_, _)
ContinuationLines(buf, d) ==
    IF LeadingLWSP(d) = 0 THEN [buf |-> buf, rest |-> d]
    ELSE LET l == Call("ReadLine", <<skipLWSPChar(d)>>)
         IN  IF ~l.ok THEN [buf |-> buf, rest |-> <<>>]
             ELSE ContinuationLines(buf \o <<" ">> \o l.line, l.rest)

\* textproto.Reader.ReadMIMEHeader: [h, r, err]; r is the reader behind the
\* blank line that ends the header block.
RECURSIVE ReadMIMEHeaderLoop(_, _)
ReadMIMEHeaderLoop(m, r) ==
    LET l == Call("ReadLine", <<r.d>>)
        c == Call("ContinuationLines", <<trim(l.line), l.rest>>)
        kv == c.buf
        i == IndexByte(kv, ":")
        rest == [r EXCEPT !.d = c.rest]
        key == Call("CanonicalMIMEHeaderKey", <<TrimRightSP(UpTo(kv, Max(i, 0)))>>)
        value == skipLWSPChar(From(kv, i + 1))
    IN  IF ~l.ok THEN [h |-> m, r |-> [r EXCEPT !.d = <<>>], err |-> r.e]
        ELSE IF Len(l.line) = 0 THEN [h |-> m, r |-> [r EXCEPT !.d = l.rest], err |-> "nil"]
        ELSE IF i < 0 THEN [h |-> m, r |-> rest, err |-> "parse"]
        ELSE ReadMIMEHeaderLoop(
                 MapPut(m, key, (IF key \in DOMAIN m THEN m[key] ELSE <<>>) \o <<value>>),
                 rest)

ReadMIMEHeader(r) == Call("ReadMIMEHeaderLoop", <<EmptyHeader, r>>)

\* The size of the buffer of a bufio.Reader made by bufio.NewReader, which is
\* also the peek size of mime/multipart.
BufioSize == 4096

\* bytes.MinRead, the size of the first read of ioutil.ReadAll.
MinRead == 512

\* bufio.Reader.Peek(n) on reader r: [peek, err]
Peek(r, n) ==
    IF n > BufioSize THEN [peek |-> UpTo(r.d, Min(Len(r.d), BufioSize)), err |-> "bufferFull"]
    ELSE IF Len(r.d) >= n THEN [peek |-> UpTo(r.d, n), err |-> "nil"]
    ELSE [peek |-> r.d, err |-> r.e]

\* preambleReader.Read(p) with len(p) = lenP > 0: [n, err, r]; n bytes are taken
\* off the head of r; err is "nil", "eof" or a failure.
preambleReaderRead(r, boundary, lenP) ==
    LET pk == Call("Peek", <<r, lenP>>)
        peek == pk.peek
        found == Index(peek, boundary)
        idx == found - TrailingSpace(UpTo(peek, Max(found, 0)))
        n0 == Min(Len(r.d), Max(1, Len(peek) - (Len(boundary) + 2)))
    IN  IF pk.err # "nil" /\ pk.err # "eof" THEN [n |-> 0, err |-> pk.err, r |-> r]
        ELSE IF found < 0
        THEN IF n0 = 0 THEN [n |-> 0, err |-> r.e, r |-> r]
             ELSE [n |-> n0, err |-> "nil", r |-> [r EXCEPT !.d = From(r.d, n0)]]
        ELSE IF idx = 0 THEN [n |-> 0, err |-> "eof", r |-> r]
        ELSE [n |-> idx, err |-> "eof", r |-> [r EXCEPT !.d = From(r.d, idx)]]

\* ioutil.ReadAll over a preambleReader: the buffer starts with capacity MinRead
\* and grows to 2*cap + MinRead when less than MinRead is free.  [b, err, r]
RECURSIVE ReadAllPreamble(_, _, _, _)
ReadAllPreamble(r, boundary, buf, cap) ==
    LET cap2 == IF cap - Len(buf) < MinRead THEN 2 * cap + MinRead ELSE cap
        rd == Call("preambleReaderRead", <<r, boundary, cap2 - Len(buf)>>)
        buf2 == buf \o UpTo(r.d, rd.n)
    IN  IF rd.err = "eof" THEN [b |-> buf2, err |-> "nil", r |-> rd.r]
        ELSE IF rd.err # "nil" THEN [b |-> buf2, err |-> rd.err, r |-> rd.r]
        ELSE ReadAllPreamble(rd.r, boundary, buf2, cap2)

\* readPreamble: [b, err, r]
readPreamble(r, boundary) == Call("ReadAllPreamble", <<r, <<"-", "-">> \o boundary, <<>>, MinRead>>)

\* readEpilogue: [b, err]
readEpilogue(r) ==
    LET ra == ReadAll(r)
    IN  [b |-> TrimRight(ra.b), err |-> ra.err]

-----------------------------------------------------------------------------
(* mime/multipart.Reader as readParts uses it.  multipart.NewReader keeps the  *)
(* bufio.Reader it is given, so the reader mr = [r, boundary, nl, partsRead]   *)
(* consumes the same stream r that readPreamble left and readEpilogue resumes. *)

multipartNewReader(r, boundary) ==
    [r |-> r, boundary |-> boundary, nl |-> CRLF, partsRead |-> 0]

nlDashBoundary(mr) == mr.nl \o <<"-", "-">> \o mr.boundary
dashBoundary(mr) == <<"-", "-">> \o mr.boundary
dashBoundaryDash(mr) == <<"-", "-">> \o mr.boundary \o <<"-", "-">>

\* Reader.isFinalBoundary
isFinalBoundary(mr, line) ==
    /\ HasPrefix(line, dashBoundaryDash(mr))
    /\ LET rest == skipLWSPChar(From(line, Len(dashBoundaryDash(mr))))
       IN  Len(rest) = 0 \/ rest = mr.nl

\* Reader.isBoundaryDelimiterLine: [ret, mr]; on the first part a line ending in a
\* bare "\n" switches the reader to that line ending.
isBoundaryDelimiterLine(mr, line) ==
    IF ~HasPrefix(line, dashBoundary(mr)) THEN [ret |-> FALSE, mr |-> mr]
    ELSE LET rest == skipLWSPChar(From(line, Len(dashBoundary(mr))))
             mr2 == IF mr.partsRead = 0 /\ rest = <<"\n">>
                    THEN [mr EXCEPT !.nl = <<"\n">>] ELSE mr
         IN  [ret |-> rest = mr2.nl, mr |-> mr2]

\* Reader.peekBufferIsEmptyPart
peekBufferIsEmptyPart(mr, peek) ==
    IF HasPrefix(peek, dashBoundaryDash(mr))
    THEN LET rest == skipLWSPChar(From(peek, Len(dashBoundaryDash(mr))))
         IN  HasPrefix(rest, mr.nl) \/ Len(rest) = 0
    ELSE /\ HasPrefix(peek, dashBoundary(mr))
         /\ HasPrefix(skipLWSPChar(From(peek, Len(dashBoundary(mr)))), mr.nl)

\* Reader.peekBufferSeparatorIndex: [idx, isEnd]
peekBufferSeparatorIndex(mr, peek) ==
    LET idx == Index(peek, nlDashBoundary(mr))
        after == From(peek, idx + Len(nlDashBoundary(mr)))
        sk == skipLWSPChar(after)
    IN  IF idx = -1 THEN [idx |-> -1, isEnd |-> FALSE]
        ELSE IF Len(after) = 0 \/ after = <<"-">> THEN [idx |-> idx, isEnd |-> FALSE]
        ELSE IF HasPrefix(after, <<"-", "-">>) THEN [idx |-> idx, isEnd |-> TRUE]
        ELSE IF IndexByte(sk, "\n") = -1 THEN [idx |-> -1, isEnd |-> FALSE]
        ELSE IF HasPrefix(sk, <<"\n">>) \/ HasPrefix(sk, CRLF) THEN [idx |-> idx, isEnd |-> TRUE]
        ELSE [idx |-> idx, isEnd |-> FALSE]

\* partReader.Read called until it ends, as ioutil.ReadAll and Part.Close call it:
\* [b, e, r]: the bytes of the part, how the part ends ("eof" at its boundary) and
\* the stream behind what was consumed.
RECURSIVE PartReadAll(_, _, _, _)
PartReadAll(mr, r, bytesRead, acc) ==
    LET pk == Call("Peek", <<r, BufioSize>>)
        peek == pk.peek
        unexpectedEOF == pk.err = "eof"
        sep == Call("peekBufferSeparatorIndex", <<mr, peek>>)
        safeCount == Len(peek) - Len(nlDashBoundary(mr))
        nCopy == IF sep.idx # -1
                 THEN (IF ~sep.isEnd /\ sep.idx = 0 THEN 1 ELSE sep.idx)
                 ELSE IF safeCount > 0 THEN safeCount ELSE 0
    IN  IF bytesRead = 0 /\ Call("peekBufferIsEmptyPart", <<mr, peek>>)
        THEN [b |-> acc, e |-> "eof", r |-> r]
        ELSE IF pk.err # "nil" /\ ~unexpectedEOF THEN [b |-> acc, e |-> pk.err, r |-> r]
        ELSE IF sep.idx # -1 /\ sep.isEnd
        THEN [b |-> acc \o UpTo(peek, nCopy), e |-> "eof",
              r |-> [r EXCEPT !.d = From(r.d, nCopy)]]
        ELSE IF nCopy = 0
        THEN [b |-> acc, e |-> "unexpectedEOF", r |-> r]
        ELSE PartReadAll(mr, [r EXCEPT !.d = From(r.d, nCopy)], bytesRead + nCopy,
                         acc \o UpTo(peek, nCopy))

\* bufio.Reader.ReadSlice('\n'): [line, r, err]
ReadSlice(r) ==
    LET nl == IndexByte(r.d, "\n")
    IN  IF nl = -1 THEN [line |-> r.d, r |-> [r EXCEPT !.d = <<>>], err |-> r.e]
        ELSE [line |-> UpTo(r.d, nl + 1), r |-> [r EXCEPT !.d = From(r.d, nl + 1)],
              err |-> "nil"]

\* Reader.NextPart with newPart: [mr, err, h]; err is "nil" with the part's header
\* h read and mr.r at the part's body; "eof" at the final boundary; else a failure.
RECURSIVE NextPartLoop(_, _)
NextPartLoop(mr, expectNewPart) ==
    LET rs == Call("ReadSlice", <<mr.r>>)
        line == rs.line
        bd == Call("isBoundaryDelimiterLine", <<mr, line>>)
        hd == Call("ReadMIMEHeader", <<rs.r>>)
        mrLine == [mr EXCEPT !.r = rs.r]
    IN  IF rs.err = "eof" /\ Call("isFinalBoundary", <<mr, line>>)
        THEN [mr |-> mrLine, err |-> "eof", h |-> EmptyHeader]
        ELSE IF rs.err # "nil" THEN [mr |-> mrLine, err |-> "parse", h |-> EmptyHeader]
        ELSE IF bd.ret
        THEN [mr |-> [bd.mr EXCEPT !.r = hd.r, !.partsRead = @ + 1],
              err |-> IF hd.err = "nil" THEN "nil" ELSE IF hd.err = "eof" THEN "eof" ELSE "parse",
              h |-> hd.h]
        ELSE IF Call("isFinalBoundary", <<mr, line>>)
        THEN [mr |-> mrLine, err |-> "eof", h |-> EmptyHeader]
        ELSE IF expectNewPart THEN [mr |-> mrLine, err |-> "parse", h |-> EmptyHeader]
        ELSE IF mr.partsRead = 0 THEN NextPartLoop(mrLine, FALSE)
        ELSE IF line = mr.nl THEN NextPartLoop(mrLine, TRUE)
        ELSE [mr |-> mrLine, err |-> "parse", h |-> EmptyHeader]

NextPart(mr) == Call("NextPartLoop", <<mr, FALSE>>)

\* multipart newPart: the body of a part whose Content-Transfer-Encoding is exactly
\* "quoted-printable" is decoded and the field is removed.  [h, r]
newPart(h, body) ==
    IF Call("HeaderGet", <<h, sContentTransferEncoding>>)
         = <<"q","u","o","t","e","d","-","p","r","i","n","t","a","b","l","e">>
    THEN LET dec == Call("QPDecode", <<body.d>>)
         IN  [h |-> Call("HeaderDel", <<h, sContentTransferEncoding>>),
              r |-> [d |-> dec.out, e |-> IF dec.ok THEN body.e ELSE "parse"]]
    ELSE [h |-> h, r |-> body]

-----------------------------------------------------------------------------
(* src/email/parser.go *)

NilMessage == <<>>

\* The header with every value passed through decodeRFC2047.
DecodeValues(h) == [k \in DOMAIN h |-> [i \in 1..Len(h[k]) |-> Call("decodeRFC2047", <<h[k][i]>>)]]

\* ParseMessage, parseMessageWithHeader: [m, err], m = NilMessage unless err = "nil".
\* readParts: [parts, err, r] with r the stream behind the last line the multipart
\* reader consumed.
RECURSIVE ParseMessage(_), parseMessageWithHeader(_, _), readPartsLoop(_, _)

\* readPartsLoop giving up at the first part that does not parse.
readPartsLoopMutant(mr, parts) ==
    LET np == Call("NextPart", <<mr>>)
        pb == Call("PartReadAll", <<np.mr, np.mr.r, 0, <<>>>>)
        part == Call("newPart", <<np.h, [d |-> pb.b, e |-> pb.e]>>)
        newEmailPart == Call("parseMessageWithHeader", <<part.h, part.r>>)
        mrNext == [np.mr EXCEPT !.r = pb.r]
    IN  IF np.err # "nil" THEN [parts |-> parts, err |-> "nil", r |-> np.mr.r]
        ELSE IF newEmailPart.err # "nil" THEN [parts |-> parts, err |-> "nil", r |-> pb.r]
        ELSE Call("readPartsLoop", <<mrNext, Append(parts, newEmailPart.m)>>)

readPartsLoop(mr, parts) ==
    LET np == Call("NextPart", <<mr>>)
        pb == Call("PartReadAll", <<np.mr, np.mr.r, 0, <<>>>>)
        part == Call("newPart", <<np.h, [d |-> pb.b, e |-> pb.e]>>)
        newEmailPart == Call("parseMessageWithHeader", <<part.h, part.r>>)
        mrNext == [np.mr EXCEPT !.r = pb.r]
    IN  IF np.err # "nil" THEN [parts |-> parts, err |-> "nil", r |-> np.mr.r]
        ELSE IF newEmailPart.err # "nil" THEN readPartsLoop(mrNext, parts)
        ELSE readPartsLoop(mrNext, Append(parts, newEmailPart.m))

\* readParts keeping one part for each Content-Type.
readPartsMutant(bodyReader, boundary) ==
    LET r == Call("readPartsLoop", <<multipartNewReader(bodyReader, boundary), <<>>>>)
        First(i) == \A j \in 1..(i - 1) :
                        Call("HeaderGet", <<r.parts[j].Header, sContentType>>)
                            # Call("HeaderGet", <<r.parts[i].Header, sContentType>>)
        keep == {i \in 1..Len(r.parts) : First(i)}
    IN  [r EXCEPT !.parts = [k \in 1..Cardinality(keep) |->
             r.parts[CHOOSE i \in keep : Cardinality({j \in keep : j < i}) = k - 1]]]

readParts(bodyReader, boundary) ==
    Call("readPartsLoop", <<multipartNewReader(bodyReader, boundary), <<>>>>)

\* parseMessageWithHeader reading every payload as a Body.
parseMessageWithHeaderMutant(headers, bodyReader) ==
    [m |-> NewMessageRecord(headers, <<>>, <<>>, bodyReader.d, <<>>, <<>>), err |-> "nil"]

parseMessageWithHeader(headers, bodyReader) ==
    LET cr == Call("contentReader", <<headers, bodyReader>>)
        bufferedReader == cr.r
        contentType == Call("HeaderGet", <<cr.h, sContentType>>)
        pm == IF Len(contentType) > 0 THEN Call("ParseMediaType", <<contentType>>)
              ELSE [ok |-> TRUE, mediaType |-> <<>>, params |-> NoParams]
        Fail(err) == [m |-> NilMessage, err |-> err]
    IN  IF ~pm.ok THEN Fail("parse")
        ELSE IF HasPrefix(pm.mediaType, sMultipart)
        THEN LET boundary == Param(pm.params, sBoundary)
                 pre == Call("readPreamble", <<bufferedReader, boundary>>)
                 rp == Call("readParts", <<pre.r, boundary>>)
                 ep == Call("readEpilogue", <<rp.r>>)
             IN  IF pre.err # "nil" THEN Fail(pre.err)
                 ELSE IF rp.err # "nil" THEN Fail(rp.err)
                 ELSE IF ep.err # "nil" THEN Fail(ep.err)
                 ELSE [m |-> NewMessageRecord(cr.h, pre.b, ep.b, <<>>, rp.parts, <<>>),
                       err |-> "nil"]
        ELSE IF HasPrefix(pm.mediaType, sMessage)
        THEN LET sub == Call("ParseMessage", <<bufferedReader>>)
             IN  IF sub.err # "nil" THEN Fail(sub.err)
                 ELSE [m |-> NewMessageRecord(cr.h, <<>>, <<>>, <<>>, <<>>, <<sub.m>>),
                       err |-> "nil"]
        ELSE LET ra == ReadAll(bufferedReader)
             IN  IF ra.err # "nil" THEN Fail(ra.err)
                 ELSE [m |-> NewMessageRecord(cr.h, <<>>, <<>>, ra.b, <<>>, <<>>),
                       err |-> "nil"]

ParseMessage(r) ==
    LET msg0 == Call("ReadMIMEHeader", <<leftTrimReaderRead(r)>>)
    IN  IF msg0.err # "nil" THEN [m |-> NilMessage, err |-> msg0.err]
        ELSE Call("parseMessageWithHeader", <<DecodeValues(msg0.h), msg0.r>>)

-----------------------------------------------------------------------------
(* Trees *)

\* The set of the nodes of the tree under m, m included, whatever their
\* Content-Type.
RECURSIVE Nodes(_)
Nodes(m) ==
    {m} \cup UNION {Nodes(m.Parts[i]) : i \in 1..Len(m.Parts)}
        \cup UNION {Nodes(m.SubMessage[i]) : i \in 1..Len(m.SubMessage)}

-----------------------------------------------------------------------------
(* The caller: builds a tree with the constructors, writes it with             *)
(* Message.WriteTo and reads the bytes back with ParseMessage.                 *)

MaxAtts == 1

sZoe == <<"Z","o","xC3","xAB">>
sHi == <<"H","i">>
sBccValue == <<"b","@","x",".","o","r","g">>
SubjectValues == {sHi, sZoe}

TextValues == {<<"h","e","l","l","o">>, <<"a","=","b"," ","xC3","xA9">>}
sHtml == <<"<","p",">","xC3","xA9","<","/","p",">">>
sB1 == <<"b","1">>
sB2 == <<"b","2">>
sB3 == <<"b","3">>
sPre == <<"p","r","e">>
sEpi == <<"e","p","i">>

\* The parts a caller attaches.
PartChoices ==
    { Call("NewPartAttachmentFromBytes", <<<<"a","b","c","d">>, <<"f",".","b","i","n">>, <<>>>>),
      Call("NewPartFromBytes", <<<<"x","\n","y">>, <<"t","e","x","t","/","p","l","a","i","n">>, <<"a","t","t","a","c","h","m","e","n","t",";"," ","f","i","l","e","n","a","m","e","=","\"","xC3","xA9",".","t","x","t","\"">>, <<>>>>),
      Call("NewPartInlineFromBytes", <<<<"i","m","g">>, <<"i",".","p","n","g">>, <<"i","m","a","g","e","/","p","n","g">>, <<"c","i","d","1">>>>) }

\* The orders in which a range over a Header map may visit its fields: the fields
\* named come first, the others follow.
Orders == {<<sSubject>>, <<sContentType>>}

-----------------------------------------------------------------------------
(* Header.Save and genMessageID *)

sMessageId == <<"M","e","s","s","a","g","e","-","I","d">>
sDate == <<"D","a","t","e">>
sMIMEVersion == <<"M","I","M","E","-","V","e","r","s","i","o","n">>
sOneZero == <<"1",".","0">>
sOneOne == <<"1",".","1">>
\* What genMessageID returns when it is not called.
NoID == [id |-> <<>>, err |-> "nil"]

sLocalhost == <<"l","o","c","a","l","h","o","s","t">>

\* fmt.Sprintf("%d", n) for n >= 0
RECURSIVE Itoa(_)
Itoa(n) ==
    IF n < 10 THEN <<HexDigits[n + 1]>>
    ELSE Itoa(n \div 10) \o <<HexDigits[(n % 10) + 1]>>

\* genMessageID: random is what rand.Int returned and hostname what os.Hostname
\* returned, each [v, err]; pid and nanoTime are os.Getpid() and the clock.
genMessageID(random, hostname, pid, nanoTime) ==
    IF random.err # "nil" THEN [id |-> <<>>, err |-> "nil"]
    ELSE LET host == IF hostname.err # "nil" THEN sLocalhost ELSE hostname.v
         IN  [id |-> <<"<">> \o Call("Itoa", <<nanoTime>>) \o <<".">> \o Call("Itoa", <<pid>>) \o <<".">>
                        \o Call("Itoa", <<random.v>>) \o <<"@">> \o host \o <<">">>,
              err |-> "nil"]

\* Header.Save.  now is time.Now().Format(time.RFC822).  The result is the
\* header, the error, and what genMessageID returned if it was called.
HeaderSaveMutant(h, random, hostname, pid, nanoTime, now) ==
    LET needID == Len(Call("HeaderGet", <<h, sMessageId>>)) = 0
        g == Call("genMessageID", <<random, hostname, pid, nanoTime>>)
    IN  IF needID /\ g.err # "nil"
        THEN [h |-> h, err |-> g.err, called |-> TRUE, id |-> g]
        ELSE LET h1 == IF needID THEN Call("HeaderSet", <<h, sMessageId, <<"<">> \o g.id \o <<">">>>>)
                       ELSE h
             IN  [h |-> Call("HeaderSet", <<h1, sMIMEVersion, sOneZero>>), err |-> "nil",
                  called |-> needID, id |-> IF needID THEN g ELSE NoID]

HeaderSave(h, random, hostname, pid, nanoTime, now) ==
    LET needID == Len(Call("HeaderGet", <<h, sMessageId>>)) = 0
        g == Call("genMessageID", <<random, hostname, pid, nanoTime>>)
    IN  IF needID /\ g.err # "nil"
        THEN [h |-> h, err |-> g.err, called |-> TRUE, id |-> g]
        ELSE LET h1 == IF needID THEN Call("HeaderSet", <<h, sMessageId, <<"<">> \o g.id \o <<">">>>>)
                       ELSE h
                 h2 == IF Len(Call("HeaderGet", <<h1, sDate>>)) = 0 THEN Call("HeaderSet", <<h1, sDate, now>>)
                       ELSE h1
             IN  [h |-> Call("HeaderSet", <<h2, sMIMEVersion, sOneZero>>), err |-> "nil",
                  called |-> needID, id |-> IF needID THEN g ELSE NoID]

-----------------------------------------------------------------------------
(* Message.HasParts, HasSubMessage, HasBody and Payload *)

HasParts(m) ==
    LET ct == Call("HeaderContentType", <<m.Header>>)
    IN  IF ct.err # "nil" THEN FALSE ELSE HasPrefix(ct.mediaType, sMultipart)

HasSubMessage(m) ==
    LET ct == Call("HeaderContentType", <<m.Header>>)
    IN  IF ct.err # "nil" THEN FALSE ELSE HasPrefix(ct.mediaType, sMessage)

HasBody(m) ==
    LET ct == Call("HeaderContentType", <<m.Header>>)
    IN  IF ct.err # "nil" /\ ct.err # "missing" THEN FALSE
        ELSE ~HasPrefix(ct.mediaType, sMultipart) /\ ~HasPrefix(ct.mediaType, sMessage)

\* Message.Payload: the field returned and its value.
Payload(m) ==
    IF Call("HasParts", <<m>>) THEN [field |-> "Parts", v |-> m.Parts]
    ELSE IF Call("HasSubMessage", <<m>>) THEN [field |-> "SubMessage", v |-> m.SubMessage]
    ELSE [field |-> "Body", v |-> m.Body]

-----------------------------------------------------------------------------
(* Message.PartsFilter, MessagesFilter and MessagesAll.  A filter f is          *)
(* [all, prefix]: the filter of MessagesAll, which takes every message, or the  *)
(* closure of contentTypePrefixFilterClosure(prefix).                           *)

\* What stands in a result for the nil pointer dereference of a method called
\* on a nil SubMessage.
Panic == [panic |-> TRUE]

Filter(f, tested) ==
    IF f.all THEN TRUE
    ELSE LET ct == Call("HeaderContentType", <<tested.Header>>)
         IN  IF ct.err # "nil" THEN FALSE ELSE HasPrefix(ct.mediaType, f.prefix)

PartsFilter(m, f) ==
    IF Call("HasParts", <<m>>)
    THEN Flatten([i \in 1..Len(m.Parts) |->
                    IF Filter(f, m.Parts[i]) THEN <<m.Parts[i]>> ELSE <<>>])
    ELSE <<>>

MessagesFilterMutant(m, f) ==
    LET messages == IF Filter(f, m) THEN <<m>> ELSE <<>>
    IN  IF Call("HasSubMessage", <<m>>) /\ m.SubMessage # <<>>
        THEN messages \o <<m.SubMessage[1]>>
        ELSE messages \o Call("PartsFilter", <<m, f>>)

RECURSIVE MessagesFilter(_, _)
MessagesFilter(m, f) ==
    LET messages == IF Filter(f, m) THEN <<m>> ELSE <<>>
    IN  IF Call("HasSubMessage", <<m>>)
        THEN IF m.SubMessage = <<>> THEN messages \o <<Panic>>
             ELSE messages \o MessagesFilter(m.SubMessage[1], f)
        ELSE IF Call("HasParts", <<m>>)
        THEN messages \o Flatten([i \in 1..Len(m.Parts) |-> MessagesFilter(m.Parts[i], f)])
        ELSE messages

AllMessages == [all |-> TRUE, prefix |-> <<>>]

MessagesAll(m) == Call("MessagesFilter", <<m, AllMessages>>)

-----------------------------------------------------------------------------
(* Header.To, Cc, Bcc and SetTo, SetCc, SetBcc, which differ in the field only. *)

sCc == <<"C","c">>
sCommaSpace == <<",", " ">>

\* strings.Split(s, sep) for a separator that is not empty
RECURSIVE Split(_, _)
Split(s, sep) ==
    LET i == Index(s, sep)
    IN  IF i < 0 THEN <<s>>
        ELSE <<UpTo(s, i)>> \o Split(From(s, i + Len(sep)), sep)

\* Header.To(), Header.Cc(), Header.Bcc()
HeaderAddresses(h, field) == Call("Split", <<HeaderGet(h, field), sCommaSpace>>)

\* Header.SetTo(emails...), Header.SetCc(emails...), Header.SetBcc(emails...)
HeaderSetAddresses(h, field, emails) == Call("HeaderSet", <<h, field, Join(emails, sCommaSpace)>>)

-----------------------------------------------------------------------------
(* Message.Send                                                                 *)

\* net/mail.ParseAddress on the two forms the model hands it, "local@domain"
\* and "name <local@domain>", and on what is neither: [address, err].
ParseAddress(s) ==
    LET t == TrimString(s)
        lt == IndexByte(t, "<")
        inner == UpTo(From(t, lt + 1), Len(t) - lt - 2)
        IsAddrSpec(a) ==
            /\ IndexByte(a, "@") > 0 /\ IndexByte(a, "@") < Len(a) - 1
            /\ \A i \in 1..Len(a) : a[i] \notin {" ", "\"", ",", "<", ">"}
    IN  IF t = <<>> THEN [address |-> <<>>, err |-> "mail: no address"]
        ELSE IF lt >= 0
        THEN IF t[Len(t)] = ">" /\ IsAddrSpec(inner) /\ Cardinality({i \in 1..lt : t[i] = "\""}) % 2 = 0
             THEN [address |-> inner, err |-> "nil"]
             ELSE [address |-> <<>>, err |-> "mail: bad address"]
        ELSE IF IsAddrSpec(t) THEN [address |-> t, err |-> "nil"]
        ELSE [address |-> <<>>, err |-> "mail: bad address"]

\* The loop of Send over the recipients: [all, err], err that of the first
\* address that does not parse.
RECURSIVE ParseRecipients(_)
ParseRecipients(all) ==
    IF all = <<>> THEN [all |-> <<>>, err |-> "nil"]
    ELSE LET a == Call("ParseAddress", <<all[1]>>)
             rest == ParseRecipients(Tail(all))
         IN  IF a.err # "nil" THEN [all |-> <<>>, err |-> a.err]
             ELSE [all |-> <<a.address>> \o rest.all, err |-> rest.err]

ErrNoRecipient == "May not send email without a recipient (To, CC, or Bcc)"
ErrNoFrom == "May not send email without a From address"

\* Message.Send.  random, hostname, pid, nanoTime and now are what Save draws
\* from the machine, ord the order of the range over the header, smtpErr what
\* smtp.SendMail returns.  The result is the error, the message with the header
\* as Send left it, and what was handed to smtp.SendMail, if anything.
MessageSend(m, random, hostname, pid, nanoTime, now, ord, smtpErr) ==
    LET to == Call("HeaderAddresses", <<m.Header, sTo>>)
        cc == Call("HeaderAddresses", <<m.Header, sCc>>)
        bcc == Call("HeaderAddresses", <<m.Header, sBcc>>)
        rcpt == Call("ParseRecipients", <<to \o cc \o bcc>>)
        from == Call("ParseAddress", <<HeaderGet(m.Header, sFrom)>>)
        saved == Call("HeaderSave", <<m.Header, random, hostname, pid, nanoTime, now>>)
        m2 == [m EXCEPT !.Header = saved.h]
        b == Call("MessageBytes", <<m2, ord>>)
    IN  IF rcpt.err # "nil" THEN [err |-> rcpt.err, m |-> m, mail |-> <<>>]
        ELSE IF Len(rcpt.all) = 0 THEN [err |-> ErrNoRecipient, m |-> m, mail |-> <<>>]
        ELSE IF from.err # "nil" THEN [err |-> from.err, m |-> m, mail |-> <<>>]
        ELSE IF Len(from.address) = 0 THEN [err |-> ErrNoFrom, m |-> m, mail |-> <<>>]
        ELSE IF saved.err # "nil" THEN [err |-> saved.err, m |-> m2, mail |-> <<>>]
        ELSE IF b.err # "nil" THEN [err |-> b.err, m |-> m2, mail |-> <<>>]
        ELSE [err |-> smtpErr, m |-> m2,
              mail |-> <<[from |-> from.address, to |-> rcpt.all, msg |-> b.bytes]>>]

\* A bufio.Reader over a reader that is read piece by piece: src are the bytes
\* the underlying reader still has, buf the bytes buffered.  fill reads once
\* from the underlying reader, which hands out at most chunk bytes a call.
bufioFill(b, chunk) ==
    LET k == Min(Min(chunk, Len(b.src)), BufioSize - Len(b.buf))
    IN  [b EXCEPT !.buf = @ \o UpTo(b.src, k), !.src = From(b.src, k)]

\* bufio.Reader.Read(p) with len(p) = lenP: [b, p, err]
bufioRead(b, lenP, chunk) ==
    IF lenP = 0 THEN [b |-> b, p |-> <<>>, err |-> "nil"]
    ELSE IF b.buf = <<>> /\ lenP >= BufioSize
    THEN LET k == Min(Min(chunk, Len(b.src)), lenP)
         IN  [b |-> [b EXCEPT !.src = From(b.src, k)], p |-> UpTo(b.src, k),
              err |-> IF k = 0 THEN "eof" ELSE "nil"]
    ELSE LET b1 == IF b.buf = <<>> THEN Call("bufioFill", <<b, chunk>>) ELSE b
             n == Min(lenP, Len(b1.buf))
         IN  [b |-> [b1 EXCEPT !.buf = From(b1.buf, n)], p |-> UpTo(b1.buf, n),
              err |-> IF n = 0 THEN "eof" ELSE "nil"]

\* leftTrimReader.Read(p) with len(p) = lenP on t = [r, done]: [t, p, err, loads],
\* loads being the number of buffers that held white space only.
leftTrimReaderReadPMutant(t, lenP, chunk) ==
    IF t.done
    THEN LET rd == Call("bufioRead", <<t.r, lenP, chunk>>)
         IN  [t |-> [t EXCEPT !.r = rd.b], p |-> rd.p, err |-> rd.err, loads |-> 0]
    ELSE LET b1 == IF t.r.buf = <<>> THEN Call("bufioFill", <<t.r, chunk>>) ELSE t.r
             maxBuffered == Len(b1.buf)
             whiteSpaceCount == LeadingSpace(b1.buf)
             b2 == [b1 EXCEPT !.buf = From(b1.buf, whiteSpaceCount)]
             rd == Call("bufioRead", <<b2, lenP, chunk>>)
         IN  [t |-> [r |-> rd.b, done |-> TRUE], p |-> rd.p, err |-> rd.err, loads |-> 0]

RECURSIVE leftTrimReaderReadP(_, _, _)
leftTrimReaderReadP(t, lenP, chunk) ==
    IF t.done
    THEN LET rd == Call("bufioRead", <<t.r, lenP, chunk>>)
         IN  [t |-> [t EXCEPT !.r = rd.b], p |-> rd.p, err |-> rd.err, loads |-> 0]
    ELSE LET b1 == IF t.r.buf = <<>> THEN Call("bufioFill", <<t.r, chunk>>) ELSE t.r
             maxBuffered == Len(b1.buf)
             whiteSpaceCount == LeadingSpace(b1.buf)
             b2 == [b1 EXCEPT !.buf = From(b1.buf, whiteSpaceCount)]
         IN  IF maxBuffered = 0
             THEN LET rd == Call("bufioRead", <<b1, lenP, chunk>>)
                  IN  [t |-> [r |-> rd.b, done |-> TRUE], p |-> rd.p, err |-> rd.err,
                       loads |-> 0]
             ELSE IF whiteSpaceCount > 0 /\ whiteSpaceCount = maxBuffered
             THEN LET rest == leftTrimReaderReadP([t EXCEPT !.r = b2], lenP, chunk)
                  IN  [rest EXCEPT !.loads = @ + 1]
             ELSE LET rd == Call("bufioRead", <<b2, lenP, chunk>>)
                  IN  [t |-> [r |-> rd.b, done |-> TRUE], p |-> rd.p, err |-> rd.err,
                       loads |-> 0]

sDeliveryStatus == <<"m","e","s","s","a","g","e","/","d","e","l","i","v","e","r","y","-","s","t","a","t","u","s">>

\* Message.HasDeliveryStatusMessage
HasDeliveryStatusMessage(m) ==
    LET c == Call("HeaderContentType", <<m.Header>>)
    IN  c.err = "nil" /\ c.mediaType = sDeliveryStatus /\ m.SubMessage # <<>>

\* The loop of DeliveryStatusRecipientDNS over the textproto.Reader r:
\* [recipientDNS, err]
RECURSIVE RecipientDNSLoop(_, _)
RecipientDNSLoop(r, recipientDNS) ==
    LET rd == Call("ReadMIMEHeader", <<r>>)
    IN  IF rd.err # "nil" /\ rd.err # "eof" THEN [recipientDNS |-> <<>>, err |-> rd.err]
        ELSE IF rd.err = "eof"
        THEN [recipientDNS |-> recipientDNS \o <<rd.h>>, err |-> "nil"]
        ELSE RecipientDNSLoop(rd.r, recipientDNS \o <<rd.h>>)

\* Message.DeliveryStatusRecipientDNS: [recipientDNS, err]
DeliveryStatusRecipientDNS(m) ==
    IF ~Call("HasDeliveryStatusMessage", <<m>>)
    THEN [recipientDNS |-> <<>>, err |-> "notDeliveryStatus"]
    ELSE Call("RecipientDNSLoop", <<NewReader(m.SubMessage[1].Body), <<>>>>)

\* The tree under m after Message.WriteTo(w) has returned.  WriteTo,
\* writeParts, writeBody, writeText and writeBase64 write to w and assign to no
\* field of a node: the Content-Transfer-Encoding line goes to w only.
RECURSIVE MessageAfterWriteToMutant(_)
MessageAfterWriteToMutant(m) ==
    LET ct == Call("HeaderContentType", <<m.Header>>)
        contentType == Call("HeaderGet", <<m.Header, sContentType>>)
    IN  IF ct.err = "parse" THEN m
        ELSE IF HasPrefix(ct.mediaType, sMessage)
        THEN IF m.SubMessage = <<>> THEN m
             ELSE [m EXCEPT !.SubMessage = <<MessageAfterWriteToMutant(m.SubMessage[1])>>]
        ELSE IF HasPrefix(ct.mediaType, sMultipart)
        THEN [m EXCEPT !.Parts = [i \in 1..Len(m.Parts) |-> MessageAfterWriteToMutant(m.Parts[i])]]
        ELSE IF Len(contentType) > 0 /\ ~Call("HeaderIsSet", <<m.Header, sContentTransferEncoding>>)
        THEN [m EXCEPT !.Header =
                Call("HeaderSet", <<@, sContentTransferEncoding,
                          IF HasPrefix(contentType, sText)
                          THEN <<"q","u","o","t","e","d","-","p","r","i","n","t","a","b","l","e">>
                          ELSE <<"b","a","s","e","6","4">>>>)]
        ELSE m

RECURSIVE MessageAfterWriteTo(_)
MessageAfterWriteTo(m) ==
    LET ct == Call("HeaderContentType", <<m.Header>>)
    IN  IF ct.err = "parse" THEN m
        ELSE IF HasPrefix(ct.mediaType, sMessage)
        THEN IF m.SubMessage = <<>> THEN m
             ELSE [m EXCEPT !.SubMessage = <<MessageAfterWriteTo(m.SubMessage[1])>>]
        ELSE IF HasPrefix(ct.mediaType, sMultipart)
        THEN [m EXCEPT !.Parts = [i \in 1..Len(m.Parts) |-> MessageAfterWriteTo(m.Parts[i])]]
        ELSE m

Call(f, a) ==
    CASE f = "ToLower" -> ToLower(a[1])
      [] f = "CanonicalMIMEHeaderKey" -> CanonicalMIMEHeaderKey(a[1])
      [] f = "HeaderAdd" -> HeaderAdd(a[1], a[2], a[3])
      [] f = "HeaderSet" -> HeaderSet(a[1], a[2], a[3])
      [] f = "HeaderGet" -> HeaderGet(a[1], a[2])
      [] f = "HeaderIsSet" -> HeaderIsSet(a[1], a[2])
      [] f = "HeaderDel" -> HeaderDel(a[1], a[2])
      [] f = "consumeToken" -> consumeToken(a[1])
      [] f = "QuotedTail" -> QuotedTail(a[1], a[2])
      [] f = "consumeValue" -> consumeValue(a[1])
      [] f = "consumeMediaParam" -> consumeMediaParam(a[1])
      [] f = "checkMediaTypeDisposition" -> checkMediaTypeDisposition(a[1])
      [] f = "MediaParams" -> MediaParams(a[1], a[2])
      [] f = "ParseMediaType" -> ParseMediaType(a[1])
      [] f = "HeaderContentType" -> HeaderContentType(a[1])
      [] f = "Base64Encode" -> Base64Encode(a[1])
      [] f = "Base64Quanta" -> Base64Quanta(a[1], a[2])
      [] f = "Base64Decode" -> Base64Decode(a[1])
      [] f = "QPLineBytes" -> QPLineBytes(a[1], a[2])
      [] f = "QPDecode" -> QPDecode(a[1])
      [] f = "qEncode" -> qEncode(a[1])
      [] f = "QEncodingEncode" -> QEncodingEncode(a[1], a[2])
      [] f = "qDecode" -> qDecode(a[1], a[2])
      [] f = "WordDecode" -> WordDecode(a[1], a[2])
      [] f = "ConvertOk" -> ConvertOk(a[1], a[2])
      [] f = "DecodeHeaderLoop" -> DecodeHeaderLoop(a[1], a[2], a[3])
      [] f = "DecodeHeader" -> DecodeHeader(a[1])
      [] f = "decodeRFC2047" -> decodeRFC2047(a[1])
      [] f = "SinkWrite" -> SinkWrite(a[1], a[2])
      [] f = "headerWriterWrite" -> headerWriterWrite(a[1], a[2])
      [] f = "base64WriterWrite" -> base64WriterWrite(a[1], a[2])
      [] f = "RangeOrder" -> RangeOrder(a[1], a[2])
      [] f = "WriteStrings" -> WriteStrings(a[1], a[2], a[3])
      [] f = "WriteValues" -> WriteValues(a[1], a[2], a[3], a[4])
      [] f = "WriteFields" -> WriteFields(a[1], a[2], a[3], a[4])
      [] f = "HeaderWriteTo" -> HeaderWriteTo(a[1], a[2], a[3])
      [] f = "QPFlush" -> QPFlush(a[1])
      [] f = "QPInsertCRLF" -> QPInsertCRLF(a[1])
      [] f = "QPInsertSoftLineBreak" -> QPInsertSoftLineBreak(a[1])
      [] f = "QPEncodeByte" -> QPEncodeByte(a[1], a[2])
      [] f = "QPCheckLastByte" -> QPCheckLastByte(a[1])
      [] f = "QPWriteBatch" -> QPWriteBatch(a[1], a[2])
      [] f = "QPWriteLoop" -> QPWriteLoop(a[1], a[2], a[3], a[4])
      [] f = "QPWrite" -> QPWrite(a[1], a[2])
      [] f = "QPClose" -> QPClose(a[1])
      [] f = "B64WriteChunks" -> B64WriteChunks(a[1], a[2], a[3])
      [] f = "B64EncoderWrite" -> B64EncoderWrite(a[1], a[2])
      [] f = "B64EncoderClose" -> B64EncoderClose(a[1])
      [] f = "writeText" -> writeText(a[1], a[2], a[3])
      [] f = "writeBase64" -> writeBase64(a[1], a[2], a[3])
      [] f = "writeBody" -> writeBody(a[1], a[2], a[3])
      [] f = "writePartsLoop" -> writePartsLoop(a[1], a[2], a[3], a[4], a[5])
      [] f = "writeParts" -> writeParts(a[1], a[2], a[3], a[4], a[5])
      [] f = "MessageWriteTo" -> MessageWriteTo(a[1], a[2], a[3])
      [] f = "MessageBytes" -> MessageBytes(a[1], a[2])
      [] f = "NewPartMultipart" -> NewPartMultipart(a[1], a[2], a[3])
      [] f = "NewPartText" -> NewPartText(a[1])
      [] f = "NewPartHTML" -> NewPartHTML(a[1])
      [] f = "NewPartFromBytes" -> NewPartFromBytes(a[1], a[2], a[3], a[4])
      [] f = "NewPartAttachmentFromBytes" -> NewPartAttachmentFromBytes(a[1], a[2], a[3])
      [] f = "NewPartInlineFromBytes" -> NewPartInlineFromBytes(a[1], a[2], a[3], a[4])
      [] f = "NewMessage" -> NewMessage(a[1], a[2], a[3], a[4], a[5], a[6])
      [] f = "NewMessageWithInlines" -> NewMessageWithInlines(a[1], a[2], a[3], a[4], a[5], a[6], a[7], a[8])
      [] f = "leftTrimReaderRead" -> leftTrimReaderRead(a[1])
      [] f = "contentReader" -> contentReader(a[1], a[2])
      [] f = "ReadLine" -> ReadLine(a[1])
      [] f = "ContinuationLines" -> ContinuationLines(a[1], a[2])
      [] f = "ReadMIMEHeaderLoop" -> ReadMIMEHeaderLoop(a[1], a[2])
      [] f = "ReadMIMEHeader" -> ReadMIMEHeader(a[1])
      [] f = "Peek" -> Peek(a[1], a[2])
      [] f = "preambleReaderRead" -> preambleReaderRead(a[1], a[2], a[3])
      [] f = "ReadAllPreamble" -> ReadAllPreamble(a[1], a[2], a[3], a[4])
      [] f = "readPreamble" -> readPreamble(a[1], a[2])
      [] f = "readEpilogue" -> readEpilogue(a[1])
      [] f = "isFinalBoundary" -> isFinalBoundary(a[1], a[2])
      [] f = "isBoundaryDelimiterLine" -> isBoundaryDelimiterLine(a[1], a[2])
      [] f = "peekBufferIsEmptyPart" -> peekBufferIsEmptyPart(a[1], a[2])
      [] f = "peekBufferSeparatorIndex" -> peekBufferSeparatorIndex(a[1], a[2])
      [] f = "PartReadAll" -> PartReadAll(a[1], a[2], a[3], a[4])
      [] f = "ReadSlice" -> ReadSlice(a[1])
      [] f = "NextPartLoop" -> NextPartLoop(a[1], a[2])
      [] f = "NextPart" -> NextPart(a[1])
      [] f = "newPart" -> newPart(a[1], a[2])
      [] f = "DecodeValues" -> DecodeValues(a[1])
      [] f = "readPartsLoop" -> readPartsLoop(a[1], a[2])
      [] f = "readParts" -> readParts(a[1], a[2])
      [] f = "parseMessageWithHeader" -> parseMessageWithHeader(a[1], a[2])
      [] f = "ParseMessage" -> ParseMessage(a[1])
      [] f = "Itoa" -> Itoa(a[1])
      [] f = "genMessageID" -> genMessageID(a[1], a[2], a[3], a[4])
      [] f = "HeaderSave" -> HeaderSave(a[1], a[2], a[3], a[4], a[5], a[6])
      [] f = "HasParts" -> HasParts(a[1])
      [] f = "HasSubMessage" -> HasSubMessage(a[1])
      [] f = "HasBody" -> HasBody(a[1])
      [] f = "Payload" -> Payload(a[1])
      [] f = "PartsFilter" -> PartsFilter(a[1], a[2])
      [] f = "MessagesFilter" -> MessagesFilter(a[1], a[2])
      [] f = "MessagesAll" -> MessagesAll(a[1])
      [] f = "Split" -> Split(a[1], a[2])
      [] f = "HeaderAddresses" -> HeaderAddresses(a[1], a[2])
      [] f = "HeaderSetAddresses" -> HeaderSetAddresses(a[1], a[2], a[3])
      [] f = "ParseAddress" -> ParseAddress(a[1])
      [] f = "ParseRecipients" -> ParseRecipients(a[1])
      [] f = "MessageSend" -> MessageSend(a[1], a[2], a[3], a[4], a[5], a[6], a[7], a[8])
      [] f = "bufioFill" -> bufioFill(a[1], a[2])
      [] f = "bufioRead" -> bufioRead(a[1], a[2], a[3])
      [] f = "leftTrimReaderReadP" -> leftTrimReaderReadP(a[1], a[2], a[3])
      [] f = "HasDeliveryStatusMessage" -> HasDeliveryStatusMessage(a[1])
      [] f = "RecipientDNSLoop" -> RecipientDNSLoop(a[1], a[2])
      [] f = "DeliveryStatusRecipientDNS" -> DeliveryStatusRecipientDNS(a[1])
      [] f = "MessageAfterWriteTo" -> MessageAfterWriteTo(a[1])

\* No reference multimap, no call of Header.Save, no read of a preamble and no
\* payload query yet.
NoRef == [m |-> EmptyHeader, n |-> 0]
NoSave ==
    [done |-> FALSE, before |-> EmptyHeader, after |-> EmptyHeader, err |-> "nil",
     randOk |-> TRUE, called |-> FALSE, id |-> NoID,
     second |-> FALSE]
NoQuery == [done |-> FALSE]
NoPreambleRead ==
    [r |-> NewReader(<<>>), acc |-> <<>>, err |-> "nil", done |-> FALSE, reads |-> 0]

NoResult == [m |-> <<>>, err |-> "nil"]
NoWrite == [total |-> 0, err |-> "nil", ord |-> <<>>]

Init ==
    /\ pc = "build"
    /\ hdr = EmptyHeader
    /\ atts = <<>>
    /\ msg = <<>>
    /\ sink = NewSink(0)
    /\ wr = NoWrite
    /\ gen = <<>>
    /\ raw = <<>>
    /\ parsed = NoResult
    /\ ref = NoRef
    /\ sv = NoSave
    /\ prd = NoPreambleRead
    /\ qry = NoQuery

\* Header.Set on the header that will be handed to NewMessage.
SetSubject ==
    /\ pc = "build" /\ ~Call("HeaderIsSet", <<hdr, sSubject>>)
    /\ \E v \in SubjectValues : hdr' = Call("HeaderSet", <<hdr, sSubject, v>>)
    /\ UNCHANGED <<pc, atts, msg, sink, wr, gen, raw, parsed, ref, sv, prd, qry>>

\* Header.SetBcc
SetBcc ==
    /\ pc = "build" /\ ~Call("HeaderIsSet", <<hdr, sBcc>>)
    /\ hdr' = Call("HeaderSet", <<hdr, sBcc, Join(<<sBccValue>>, <<",", " ">>)>>)
    /\ UNCHANGED <<pc, atts, msg, sink, wr, gen, raw, parsed, ref, sv, prd, qry>>

\* NewPartAttachmentFromBytes, NewPartFromBytes, NewPartInlineFromBytes
AddPart ==
    /\ pc = "build" /\ Len(atts) < MaxAtts
    /\ \E a \in PartChoices : atts' = Append(atts, a)
    /\ UNCHANGED <<pc, hdr, msg, sink, wr, gen, raw, parsed, ref, sv, prd, qry>>

Constructed(m) ==
    /\ pc = "build"
    /\ msg' = <<m>>
    /\ pc' = "built"
    /\ hdr' = EmptyHeader
    /\ atts' = <<>>
    /\ UNCHANGED <<sink, wr, gen, raw, parsed, ref, sv, prd, qry>>

CallNewMessage == \E t \in TextValues : Constructed(Call("NewMessage", <<hdr, t, sHtml, atts, sB1, sB2>>))

CallNewMessageWithInlines ==
    \E t \in TextValues :
        Constructed(Call("NewMessageWithInlines", <<hdr, t, sHtml, atts, <<>>, sB1, sB2, sB3>>))

CallNewPartMultipart == hdr = EmptyHeader /\ Constructed(Call("NewPartMultipart", <<sMixed, atts, sB1>>))

CallNewPartText ==
    /\ hdr = EmptyHeader /\ atts = <<>>
    /\ \E t \in TextValues : Constructed(Call("NewPartText", <<t>>))

CallNewPartHTML == hdr = EmptyHeader /\ atts = <<>> /\ Constructed(Call("NewPartHTML", <<sHtml>>))

\* A part built by AddPart used as the tree itself.
UsePart == hdr = EmptyHeader /\ Len(atts) = 1 /\ Constructed(atts[1])

\* The caller sets Preamble and Epilogue of a multipart root.
SetPreambleEpilogue ==
    /\ pc = "built"
    /\ msg[1].Parts # <<>> /\ msg[1].Preamble = <<>> /\ msg[1].Epilogue = <<>>
    /\ msg' = <<[msg[1] EXCEPT !.Preamble = sPre, !.Epilogue = sEpi]>>
    /\ UNCHANGED <<pc, hdr, atts, sink, wr, gen, raw, parsed, ref, sv, prd, qry>>

\* Message.WriteTo on a sink whose failAt-th Write fails (none if failAt = 0).
WriteTo(failAt) ==
    /\ pc = "built"
    /\ \E ord \in Orders :
         LET r == Call("MessageWriteTo", <<msg[1], NewSink(failAt), ord>>)
         IN  /\ sink' = r.s
             /\ wr' = [total |-> r.total, err |-> r.err, ord |-> ord]
    /\ pc' = "written"
    /\ UNCHANGED <<hdr, atts, msg, gen, raw, parsed, ref, sv, prd, qry>>

\* ParseMessage on the bytes the sink received.
ParseWritten ==
    /\ pc = "written" /\ wr.err = "nil"
    /\ raw' = sink.buf
    /\ LET p == Call("ParseMessage", <<NewReader(sink.buf)>>)
       IN  parsed' = [m |-> IF p.err = "nil" THEN <<p.m>> ELSE <<>>, err |-> p.err]
    /\ pc' = "parsed"
    /\ UNCHANGED <<hdr, atts, msg, sink, wr, gen, ref, sv, prd, qry>>

Next ==
    \/ SetSubject
    \/ SetBcc
    \/ AddPart
    \/ CallNewMessage
    \/ CallNewMessageWithInlines
    \/ CallNewPartMultipart
    \/ CallNewPartText
    \/ CallNewPartHTML
    \/ UsePart
    \/ SetPreambleEpilogue
    \/ WriteTo(0)
    \/ ParseWritten

Spec == Init /\ [][Next]_vars

-----------------------------------------------------------------------------
(* Messages as a foreign sender lays them out, handed to ParseMessage.  gen     *)
(* records the layout: a leaf [kind, ct, cte, body], or a multipart              *)
(* [kind, ct, pre, epi, parts] whose parts are records [h, ct, seg, class, body]:*)
(* the header block, the Content-Type it names, the body segment between the     *)
(* delimiter lines, what is wrong with the part if anything, and the Body the    *)
(* part stands for.                                                              *)

MaxParts == 2

sCTField == sContentType \o <<":", " ">>
sCTEField == sContentTransferEncoding \o <<":", " ">>
sEncodedZoe == <<"=","?","U","T","F","-","8","?","q","?","Z","o","=","C","3","=","A","B","?","=">>
sSubjectLine == sSubject \o <<":", " ">> \o sEncodedZoe \o CRLF
sTextPlain == <<"t","e","x","t","/","p","l","a","i","n">>
sGenBoundary == <<"B">>
sDelimiter == <<"-", "-">> \o sGenBoundary
sNestedSegment == <<"-","-","N","\r","\n","C","o","n","t","e","n","t","-","T","y","p","e",":"," ","t","e","x","t","/","p","l","a","i","n","\r","\n","\r","\n","i","n","\r","\n","-","-","N","-","-">>
sMultipartWithBoundary == <<"m","u","l","t","i","p","a","r","t","/","m","i","x","e","d",";"," ","b","o","u","n","d","a","r","y","=","B">>
sMultipartNoBoundary == <<"m","u","l","t","i","p","a","r","t","/","m","i","x","e","d">>
sMultipartEmptyBoundary == <<"m","u","l","t","i","p","a","r","t","/","m","i","x","e","d",";"," ","b","o","u","n","d","a","r","y","=","\"","\"">>

\* An epilogue behind an empty line and a space, and one of whitespace only.
sLeadEpi == <<"\r","\n"," ","e","p","i">>
sBlankEpi == <<" ","\t">>

GenPart(h, ct, seg, class, body) ==
    [h |-> h, ct |-> ct, seg |-> seg, class |-> class, body |-> body]

PartKinds ==
    { GenPart(sCTField \o sTextPlain \o CRLF, sTextPlain, <<"o","n","e">>, "leaf", <<"o","n","e">>),
      GenPart(sCTField \o sTextPlain \o CRLF, sTextPlain, <<"t","w","o","\r","\n","\r","\n"," ","2","\r","\n">>, "leaf", <<"t","w","o","\r","\n","\r","\n"," ","2","\r","\n">>),
      GenPart(sCTField \o sTextPlain \o CRLF \o <<"C","o","n","t","e","n","t","-","D","e","s","c","r","i","p","t","i","o","n",":"," ">> \o sEncodedZoe \o CRLF,
              sTextPlain, <<>>, "leaf", <<>>),
      GenPart(sCTField \o sTextPlain \o CRLF \o sCTEField \o <<"q","u","o","t","e","d","-","p","r","i","n","t","a","b","l","e">> \o CRLF,
              sTextPlain, <<"a","=","3","D","b">>, "encoded", <<"a","=","b">>),
      GenPart(sCTField \o sOctetStream \o CRLF \o sCTEField \o <<"b","a","s","e","6","4">> \o CRLF,
              sOctetStream, <<"Y","W","J","j">>, "encoded", <<"a","b","c">>),
      GenPart(<<"n","o"," ","c","o","l","o","n"," ","h","e","r","e">> \o CRLF, <<>>, <<"x","1">>, "badHeader", <<>>),
      GenPart(sCTField \o <<"t","e","x","t","/","p","l","a","i","n",";"," ","c","h","a","r","s","e","t">> \o CRLF, <<"t","e","x","t","/","p","l","a","i","n",";"," ","c","h","a","r","s","e","t">>, <<"x","2">>, "badContentType", <<>>),
      GenPart(sCTEField \o <<"b","a","s","e","6","4">> \o CRLF, <<>>, <<"!","!","!","!">>, "badBody", <<>>),
      GenPart(sCTField \o <<"m","u","l","t","i","p","a","r","t","/","a","l","t","e","r","n","a","t","i","v","e",";"," ","b","o","u","n","d","a","r","y","=","N">> \o CRLF, <<"m","u","l","t","i","p","a","r","t","/","a","l","t","e","r","n","a","t","i","v","e",";"," ","b","o","u","n","d","a","r","y","=","N">>, sNestedSegment, "nested", <<>>),
      GenPart(sCTField \o <<"m","u","l","t","i","p","a","r","t","/","a","l","t","e","r","n","a","t","i","v","e">> \o CRLF, <<"m","u","l","t","i","p","a","r","t","/","a","l","t","e","r","n","a","t","i","v","e">>, sNestedSegment, "noBoundary", <<>>),
      GenPart(sCTField \o <<"m","e","s","s","a","g","e","/","r","f","c","8","2","2">> \o CRLF, <<"m","e","s","s","a","g","e","/","r","f","c","8","2","2">>, sSubjectLine \o CRLF \o <<"s","u","b">>,
              "message", <<>>) }

\* The sequences of at most n elements of S.
RECURSIVE SeqsUpTo(_, _)
SeqsUpTo(S, n) ==
    IF n = 0 THEN {<<>>}
    ELSE LET shorter == SeqsUpTo(S, n - 1)
         IN  shorter \cup {Append(s, x) : s \in shorter, x \in S}

GenMultipart(ct, pre, epi, parts) ==
    [kind |-> "multipart", ct |-> ct, pre |-> pre, epi |-> epi, parts |-> parts]

GenLeaf(ct, cte, body) == [kind |-> "leaf", ct |-> ct, cte |-> cte, body |-> body]

TransferEncodings == {<<>>, <<"q","u","o","t","e","d","-","p","r","i","n","t","a","b","l","e">>, <<"Q","u","o","t","e","d","-","P","r","i","n","t","a","b","l","e">>, <<"b","a","s","e","6","4">>, <<"B","A","S","E","6","4">>, <<"7","b","i","t">>}

Corpus ==
    {GenMultipart(sMultipartWithBoundary, pe[1], pe[2], ps) :
        pe \in {<<<<>>, <<>>>>, <<sPre, sEpi>>}, ps \in SeqsUpTo(PartKinds, MaxParts)}
    \cup {GenMultipart(ct, <<>>, <<>>, ps) :
        ct \in {sMultipartNoBoundary, sMultipartEmptyBoundary},
        ps \in {<<>>, <<GenPart(sCTField \o sTextPlain \o CRLF, sTextPlain, <<"o","n","e">>, "leaf", <<"o","n","e">>)>>}}
    \cup {GenMultipart(sMultipartWithBoundary, <<>>, epi, ps) :
        epi \in {sLeadEpi, sBlankEpi}, ps \in SeqsUpTo(PartKinds, 1)}
    \cup {GenLeaf(ct, cte, body) :
        ct \in {<<>>, sTextPlain}, cte \in TransferEncodings, body \in {<<"a","=","3","D","b","\r","\n">>, <<"Y","W","J","j">>}}

\* The bytes of the parts, each behind its delimiter line.
RECURSIVE WireParts(_)
WireParts(parts) ==
    IF parts = <<>> THEN <<>>
    ELSE sDelimiter \o CRLF \o parts[1].h \o CRLF \o parts[1].seg \o CRLF
         \o WireParts(Tail(parts))

\* The bytes of the message gen lays out.
Wire(g) ==
    IF g.kind = "leaf"
    THEN sSubjectLine
         \o (IF g.ct = <<>> THEN <<>> ELSE sCTField \o g.ct \o CRLF)
         \o (IF g.cte = <<>> THEN <<>> ELSE sCTEField \o g.cte \o CRLF)
         \o CRLF \o g.body
    ELSE sSubjectLine \o sCTField \o g.ct \o CRLF \o CRLF
         \o (IF g.pre = <<>> THEN <<>> ELSE g.pre \o CRLF)
         \o WireParts(g.parts)
         \o sDelimiter \o <<"-", "-">> \o CRLF
         \o (IF g.epi = <<>> THEN <<>> ELSE g.epi \o CRLF)

InitParse ==
    /\ pc = "input"
    /\ hdr = EmptyHeader
    /\ atts = <<>>
    /\ msg = <<>>
    /\ sink = NewSink(0)
    /\ wr = NoWrite
    /\ gen \in {<<g>> : g \in Corpus}
    /\ raw = Wire(gen[1])
    /\ parsed = NoResult
    /\ ref = NoRef
    /\ sv = NoSave
    /\ prd = NoPreambleRead
    /\ qry = NoQuery

\* ParseMessage on the bytes of a foreign message.
ParseInput ==
    /\ pc = "input"
    /\ LET p == Call("ParseMessage", <<NewReader(raw)>>)
       IN  parsed' = [m |-> IF p.err = "nil" THEN <<p.m>> ELSE <<>>, err |-> p.err]
    /\ pc' = "parsed"
    /\ UNCHANGED <<hdr, atts, msg, sink, wr, gen, raw, ref, sv, prd, qry>>

NextParse == ParseInput

SpecParse == InitParse /\ [][NextParse]_vars

-----------------------------------------------------------------------------
(* Message.WriteTo on a sink that fails. *)

MaxFailAt == 14

sSevenBit == <<"7","b","i","t">>

\* A message/rfc822 node with its SubMessage set.
SubMessageTree ==
    NewMessageRecord(Call("HeaderSet", <<EmptyHeader, sContentType, <<"m","e","s","s","a","g","e","/","r","f","c","8","2","2">>>>),
                     <<>>, <<>>, <<>>, <<>>, <<Call("NewPartText", <<<<"i","n">>>>)>>)

IOTrees ==
    { Call("NewPartText", <<<<"a","=","b">>>>),
      Call("NewPartText", <<<<"x","\n","y">>>>),
      Call("NewPartHTML", <<sHtml>>),
      Call("NewPartFromBytes", <<<<"a","b","c","d">>, <<>>, <<>>, <<>>>>),
      Call("NewPartFromBytes", <<<<"h","i">>, <<"T","e","x","t","/","P","l","a","i","n">>, <<>>, <<>>>>),
      Call("NewPartFromBytes", <<<<"h","i">>, <<"t","e","x","t","u","a","l","/","x">>, <<>>, <<>>>>),
      [Call("NewPartMultipart", <<sMixed, <<Call("NewPartText", <<<<"h","i">>>>), Call("NewPartFromBytes", <<<<"a","b","c","d">>, <<>>, <<>>, <<>>>>)>>,
                        sB1>>) EXCEPT !.Preamble = sPre, !.Epilogue = sEpi],
      SubMessageTree }

InitIO ==
    /\ pc = "built"
    /\ hdr = EmptyHeader
    /\ atts = <<>>
    /\ msg \in {<<m>> : m \in IOTrees}
    /\ sink = NewSink(0)
    /\ wr = NoWrite
    /\ gen = <<>>
    /\ raw = <<>>
    /\ parsed = NoResult
    /\ ref = NoRef
    /\ sv = NoSave
    /\ prd = NoPreambleRead
    /\ qry = NoQuery

\* Header.Set("Content-Transfer-Encoding", "7bit") on the root.
SetTransferEncoding ==
    /\ pc = "built" /\ msg[1].Parts = <<>> /\ msg[1].SubMessage = <<>>
    /\ ~Call("HeaderIsSet", <<msg[1].Header, sContentTransferEncoding>>)
    /\ msg' = <<[msg[1] EXCEPT !.Header = Call("HeaderSet", <<@, sContentTransferEncoding, sSevenBit>>)]>>
    /\ UNCHANGED <<pc, hdr, atts, sink, wr, gen, raw, parsed, ref, sv, prd, qry>>

\* Header.Del("Content-Type") on the root.
DelContentType ==
    /\ pc = "built" /\ msg[1].Parts = <<>> /\ msg[1].SubMessage = <<>>
    /\ Call("HeaderIsSet", <<msg[1].Header, sContentType>>)
    /\ msg' = <<[msg[1] EXCEPT !.Header = Call("HeaderDel", <<@, sContentType>>)]>>
    /\ UNCHANGED <<pc, hdr, atts, sink, wr, gen, raw, parsed, ref, sv, prd, qry>>

NextIO ==
    \/ SetTransferEncoding
    \/ DelContentType
    \/ \E k \in 0..MaxFailAt : WriteTo(k)

SpecIO == InitIO /\ [][NextIO]_vars

-----------------------------------------------------------------------------
(* Properties *)

\* The Content-Type and Body of each of the parts.
PartSummaries(parts) ==
    [i \in 1..Len(parts) |-> <<Call("HeaderGet", <<parts[i].Header, sContentType>>), parts[i].Body>>]

\* The same of the laid out parts.
GenSummaries(parts) == [i \in 1..Len(parts) |-> <<parts[i].ct, parts[i].body>>]

WellFormedClasses == {"leaf", "encoded", "nested", "message"}
MalformedClasses == {"badHeader", "badContentType", "badBody"}

\* gen lays out a multipart message whose Content-Type names the boundary in use.
GenIsMultipart == pc = "parsed" /\ gen # <<>> /\ gen[1].kind = "multipart"
GenHasBoundary == GenIsMultipart /\ gen[1].ct = sMultipartWithBoundary
GenClasses == {gen[1].parts[i].class : i \in 1..Len(gen[1].parts)}

\* The parts of seq before the first one of class c.
RECURSIVE BeforeFirst(_, _)
BeforeFirst(seq, classes) ==
    IF seq = <<>> \/ seq[1].class \in classes THEN <<>>
    ELSE <<seq[1]>> \o BeforeFirst(Tail(seq), classes)

IsWellFormedPart(p) == p.class \in WellFormedClasses

\* Every header value of orig, Bcc aside, is a value of the same field of the
\* same node of back.
RECURSIVE HeaderValuesReadBack(_, _)
HeaderValuesReadBack(orig, back) ==
    /\ \A k \in DOMAIN orig.Header \ {sBcc} :
           k \in DOMAIN back.Header /\ back.Header[k] = orig.Header[k]
    /\ \A i \in 1..Min(Len(orig.Parts), Len(back.Parts)) :
           HeaderValuesReadBack(orig.Parts[i], back.Parts[i])
    /\ \A i \in 1..Min(Len(orig.SubMessage), Len(back.SubMessage)) :
           HeaderValuesReadBack(orig.SubMessage[i], back.SubMessage[i])

\* C1: round trip.  A tree built with the constructors (no Bcc set, which
\* Header.WriteTo leaves out) and written with Message.WriteTo is parsed by
\* ParseMessage without error into a tree equal to the original at every node:
\* Header, Preamble, Epilogue, Body, the order and nesting of the parts.
C1_RoundTrip ==
    (pc = "parsed" /\ gen = <<>> /\ ~Call("HeaderIsSet", <<msg[1].Header, sBcc>>))
        => (parsed.err = "nil" /\ parsed.m = msg)

\* The payload of node n is the one its Content-Type selects, and no other.
PayloadAsSelected(n) ==
    LET mediaType == Call("HeaderContentType", <<n.Header>>).mediaType
    IN  IF HasPrefix(mediaType, sMultipart)
        THEN n.Body = <<>> /\ n.SubMessage = <<>>
        ELSE IF HasPrefix(mediaType, sMessage)
        THEN /\ n.SubMessage # <<>>
             /\ n.Body = <<>> /\ n.Parts = <<>> /\ n.Preamble = <<>> /\ n.Epilogue = <<>>
        ELSE /\ n.Parts = <<>> /\ n.SubMessage = <<>>
             /\ n.Preamble = <<>> /\ n.Epilogue = <<>>

\* C2: payload exclusivity.  At every node of every tree ParseMessage returns,
\* a multipart Content-Type leaves Body empty and SubMessage nil, a message
\* Content-Type leaves only SubMessage set, any other or no Content-Type leaves
\* only Body possibly non-empty, and Preamble and Epilogue are empty unless the
\* node is multipart.
C2_PayloadExclusivity ==
    (pc = "parsed" /\ parsed.err = "nil")
        => \A n \in Nodes(parsed.m[1]) : PayloadAsSelected(n)

\* A parsed tree that holds all three payloads: parts, a sub-message, a body.
C2_Witness ==
    /\ pc = "parsed" /\ gen # <<>> /\ parsed.err = "nil"
    /\ \E n \in Nodes(parsed.m[1]) : n.Parts # <<>>
    /\ \E n \in Nodes(parsed.m[1]) : n.SubMessage # <<>>
    /\ \E n \in Nodes(parsed.m[1]) : n.Body # <<>>

\* C3: a multipart body of n well-formed parts between delimiter lines, closed by
\* the closing delimiter, parses into exactly n Parts in the order of appearance,
\* parts of one and the same Content-Type all kept; the Body of each is its
\* segment (decoded if the part names a transfer encoding); Preamble is empty when
\* nothing precedes the first delimiter and Epilogue when nothing follows the last.
C3_PartsInOrder ==
    (GenHasBoundary /\ GenClasses \subseteq WellFormedClasses)
        => /\ parsed.err = "nil"
           /\ Len(parsed.m[1].Parts) = Len(gen[1].parts)
           /\ PartSummaries(parsed.m[1].Parts) = GenSummaries(gen[1].parts)
           /\ \A i \in 1..Len(gen[1].parts) :
                  gen[1].parts[i].class = "leaf"
                      => parsed.m[1].Parts[i].Body = gen[1].parts[i].seg
           /\ gen[1].pre = <<>> => parsed.m[1].Preamble = <<>>
           /\ gen[1].epi = <<>> => parsed.m[1].Epilogue = <<>>

\* Two parts of the same Content-Type and different bodies, both parsed, with no
\* preamble and no epilogue.
C3_Witness ==
    /\ GenHasBoundary /\ Len(gen[1].parts) = 2
    /\ gen[1].parts[1].class = "leaf" /\ gen[1].parts[2].class = "leaf"
    /\ gen[1].parts[1].ct = gen[1].parts[2].ct
    /\ gen[1].parts[1].seg # gen[1].parts[2].seg
    /\ gen[1].pre = <<>> /\ gen[1].epi = <<>>
    /\ parsed.err = "nil" /\ Len(parsed.m[1].Parts) = 2

\* gen has a part that cannot be parsed, and no multipart part without boundary.
GenHasMalformedPart ==
    /\ GenHasBoundary
    /\ GenClasses \cap MalformedClasses # {}
    /\ "noBoundary" \notin GenClasses

C5_MissingBoundaryFails ==
    (GenIsMultipart /\ LET ct == Call("ParseMediaType", <<gen[1].ct>>)
                       IN  ct.ok /\ HasPrefix(ct.mediaType, sMultipart)
                           /\ Param(ct.params, sBoundary) = <<>>)
        => parsed.err # "nil"

sQuotedPrintable == <<"q","u","o","t","e","d","-","p","r","i","n","t","a","b","l","e">>
sBase64 == <<"b","a","s","e","6","4">>

\* C6: a body node whose Content-Transfer-Encoding is quoted-printable or base64
\* is parsed into the decoded bytes, without the Content-Transfer-Encoding field;
\* with any other value, or none, the field stays as it was and Body is the raw
\* bytes.
C6_TransferDecoding ==
    (pc = "parsed" /\ gen # <<>> /\ gen[1].kind = "leaf")
        => IF Call("ToLower", <<gen[1].cte>>) \in {sQuotedPrintable, sBase64}
           THEN parsed.err = "nil"
                    => /\ ~Call("HeaderIsSet", <<parsed.m[1].Header, sContentTransferEncoding>>)
                       /\ parsed.m[1].Body
                            = IF Call("ToLower", <<gen[1].cte>>) = sBase64
                              THEN Call("Base64Decode", <<gen[1].body>>).out
                              ELSE Call("QPDecode", <<gen[1].body>>).out
           ELSE /\ parsed.err = "nil"
                /\ parsed.m[1].Body = gen[1].body
                /\ Call("HeaderGet", <<parsed.m[1].Header, sContentTransferEncoding>>) = gen[1].cte
                /\ Call("HeaderIsSet", <<parsed.m[1].Header, sContentTransferEncoding>>)
                       <=> gen[1].cte # <<>>

\* C7: RFC 2047 decoding reaches every node.  Every header value that
\* Header.WriteTo wrote, Q-encoded or not, of the root, of a multipart child or of
\* a sub-message, is read back by ParseMessage as the original text.
C7_HeaderValuesDecoded ==
    (pc = "parsed" /\ gen = <<>> /\ parsed.err = "nil")
        => HeaderValuesReadBack(msg[1], parsed.m[1])

\* The node has a body payload: its Content-Type parses and is neither
\* multipart nor message, or it has none.
IsBodyNode(m) ==
    LET ct == Call("HeaderContentType", <<m.Header>>)
    IN  /\ ct.err # "parse"
        /\ ~HasPrefix(ct.mediaType, sMultipart)
        /\ ~HasPrefix(ct.mediaType, sMessage)

\* s in lines of 76 bytes.
RECURSIVE Fold76(_)
Fold76(s) ==
    IF Len(s) <= 76 THEN s ELSE SubSeq(s, 1, 76) \o CRLF \o Fold76(SubSeq(s, 77, Len(s)))

\* The quoted-printable encoding of body.
QuotedPrintable(body) == Call("QPClose", <<QPWrite(NewQPWriter(NewSink(0)), body).q>>).q.w.buf

\* What C8 has follow the header block of body node m.
ExpectedAfterHeader(m) ==
    IF Call("HeaderIsSet", <<m.Header, sContentTransferEncoding>>) THEN CRLF \o m.Body
    ELSE IF Len(Call("HeaderGet", <<m.Header, sContentType>>)) > 0
    THEN IF HasPrefix(Call("HeaderContentType", <<m.Header>>).mediaType, sText \o <<"/">>)
         THEN sCTEQuotedPrintableLine \o QuotedPrintable(m.Body)
         ELSE sCTEBase64Line \o Fold76(Call("Base64Encode", <<m.Body>>))
    ELSE CRLF \o m.Body

\* C8: encoding selection on write.  After the header block of a body node
\* Message.WriteTo writes: CRLF and the raw Body if Content-Transfer-Encoding is
\* set; else, with a Content-Type, for a text/* media type the quoted-printable
\* field line, a blank line and the quoted-printable Body, for any other media
\* type the base64 field line, a blank line and the base64 Body in lines of 76;
\* with no Content-Type, CRLF and the raw Body.
C8_EncodingSelection ==
    (pc = "written" /\ sink.failAt = 0 /\ IsBodyNode(msg[1]))
        => sink.buf = Call("HeaderWriteTo", <<msg[1].Header, NewSink(0), wr.ord>>).s.buf
                        \o ExpectedAfterHeader(msg[1])

\* C9: Message.WriteTo returns the number of bytes it wrote to the sink, whatever
\* the payload and also when it stops on an error.
C9_ReturnsBytesWritten == pc = "written" => wr.total = Len(sink.buf)

\* C10: when a Write of the sink fails during Message.WriteTo, the final flush of
\* the quoted-printable or base64 encoder included, WriteTo returns an error and
\* writes nothing more to the sink.
C10_ErrorPropagates ==
    (pc = "written" /\ sink.failAt # 0 /\ sink.calls >= sink.failAt)
        => (wr.err # "nil" /\ sink.late = 0)

-----------------------------------------------------------------------------
(* A caller that fills a Header with Set, Add, Del and SetBcc, keys in any      *)
(* letter case, and then calls Save or WriteTo on it.  ref.m is the multimap    *)
(* the calls should leave, kept under the lower-case key, ref.n their number.   *)

MaxCalls == 3

RefSet(m, key, value) == MapPut(m, Call("ToLower", <<key>>), <<value>>)

RefAdd(m, key, value) ==
    LET k == Call("ToLower", <<key>>)
    IN  MapPut(m, k, (IF k \in DOMAIN m THEN m[k] ELSE <<>>) \o <<value>>)

RefDel(m, key) == [x \in DOMAIN m \ {Call("ToLower", <<key>>)} |-> m[x]]

InitHeader ==
    /\ pc = "hbuild"
    /\ hdr = EmptyHeader
    /\ atts = <<>>
    /\ msg = <<>>
    /\ sink = NewSink(0)
    /\ wr = NoWrite
    /\ gen = <<>>
    /\ raw = <<>>
    /\ parsed = NoResult
    /\ ref = NoRef
    /\ sv = NoSave
    /\ prd = NoPreambleRead
    /\ qry = NoQuery

\* Header.Set(k, v)
CallSet(K, V) ==
    /\ pc = "hbuild" /\ ref.n < MaxCalls
    /\ \E k \in K, v \in V :
         /\ hdr' = Call("HeaderSet", <<hdr, k, v>>)
         /\ ref' = [m |-> RefSet(ref.m, k, v), n |-> ref.n + 1]
    /\ UNCHANGED <<pc, atts, msg, sink, wr, gen, raw, parsed, sv, prd, qry>>

\* Header.Add(k, v)
CallAdd(K, V) ==
    /\ pc = "hbuild" /\ ref.n < MaxCalls
    /\ \E k \in K, v \in V :
         /\ hdr' = Call("HeaderAdd", <<hdr, k, v>>)
         /\ ref' = [m |-> RefAdd(ref.m, k, v), n |-> ref.n + 1]
    /\ UNCHANGED <<pc, atts, msg, sink, wr, gen, raw, parsed, sv, prd, qry>>

\* Header.Del(k)
CallDel(K) ==
    /\ pc = "hbuild" /\ ref.n < MaxCalls
    /\ \E k \in K :
         /\ hdr' = Call("HeaderDel", <<hdr, k>>)
         /\ ref' = [m |-> RefDel(ref.m, k), n |-> ref.n + 1]
    /\ UNCHANGED <<pc, atts, msg, sink, wr, gen, raw, parsed, sv, prd, qry>>

\* Header.SetBcc(v)
CallSetBcc(V) ==
    /\ pc = "hbuild" /\ ref.n < MaxCalls
    /\ \E v \in V :
         /\ hdr' = Call("HeaderSet", <<hdr, sBcc, Join(<<v>>, <<",", " ">>)>>)
         /\ ref' = [m |-> RefSet(ref.m, sBcc, v), n |-> ref.n + 1]
    /\ UNCHANGED <<pc, atts, msg, sink, wr, gen, raw, parsed, sv, prd, qry>>

\* Header.WriteTo on a sink that takes every write.
CallHeaderWriteTo(O) ==
    /\ pc = "hbuild"
    /\ \E ord \in O :
         LET r == Call("HeaderWriteTo", <<hdr, NewSink(0), ord>>)
         IN  /\ sink' = r.s
             /\ wr' = [total |-> r.total, err |-> r.err, ord |-> ord]
    /\ pc' = "hwritten"
    /\ UNCHANGED <<hdr, atts, msg, gen, raw, parsed, ref, sv, prd, qry>>

-----------------------------------------------------------------------------
(* Header.WriteTo on headers with long values.                                  *)

\* n times the byte c.
Rep(c, n) == [i \in 1..n |-> c]

sXNote == <<"X","-","N","o","t","e">>
sZoeX == <<"Z","o","xC3","xAB"," ","x">>
sOtherBcc == <<"c","@","x",".","o","r","g">>
\* A word longer than a line, two words that do not fit on one line, and a word
\* that leaves one byte of a Subject line free.
sLongWord == Rep("a", MaxHeaderTotalLength + 2)
sLongWords == Rep("a", 600) \o <<" ">> \o Rep("b", 600)
sEdgeWord == Rep("a", MaxHeaderTotalLength - Len(sSubject) - 3)

WrittenKeys == {sSubject, sXNote}
WrittenValues == {sZoeX, sLongWord, sLongWords, sEdgeWord}
WrittenOrders == {<<sSubject>>, <<sXNote>>}

NextHeaderWrite ==
    \/ CallSet(WrittenKeys, WrittenValues)
    \/ CallAdd(WrittenKeys, {sHi, sZoeX})
    \/ CallSetBcc({sBccValue, sOtherBcc})
    \/ CallHeaderWriteTo(WrittenOrders)

SpecHeaderWrite == InitHeader /\ [][NextHeaderWrite]_vars

-----------------------------------------------------------------------------
(* Properties of Header.WriteTo *)

\* The lines of s: the bytes before each CRLF, and what follows the last one.
RECURSIVE SplitCRLF(_)
SplitCRLF(s) ==
    LET i == Index(s, CRLF)
    IN  IF s = <<>> THEN <<>>
        ELSE IF i = -1 THEN <<s>>
        ELSE <<UpTo(s, i)>> \o SplitCRLF(From(s, i + 2))

\* s without the line breaks of the folder, CRLF and the indent space.
RECURSIVE RemoveFolds(_)
RemoveFolds(s) ==
    LET i == Index(s, <<"\r", "\n", " ">>)
    IN  IF i = -1 THEN s ELSE UpTo(s, i) \o RemoveFolds(From(s, i + 3))

\* The field lines Header.WriteTo owes for field k of h.
LinesOwed(h, k) ==
    [i \in 1..Len(h[k]) |->
        k \o <<":", " ">> \o Call("QEncodingEncode", <<sUTF8, TrimString(h[k][i])>>)]

\* The lines among lines that begin with k and a colon.
LinesOf(lines, k) ==
    LET IsOfK(l) == HasPrefix(l, k \o <<":">>)
    IN  SelectSeq(lines, IsOfK)

RECURSIVE SumLen(_, _)
SumLen(h, keys) ==
    IF keys = {} THEN 0
    ELSE LET k == CHOOSE x \in keys : TRUE IN Len(h[k]) + SumLen(h, keys \ {k})

HeaderWritten == pc = "hwritten" /\ wr.err = "nil"

\* C11: Bcc is never transmitted and nothing else is lost.  The field lines that
\* Header.WriteTo emits for a header built with Set, Add and SetBcc are one line
\* for each value of each field other than Bcc, the values of a field in the
\* order of insertion, and no line for Bcc: the lines are those of the header
\* without its Bcc field, whatever the Bcc values.
C11_BccNeverWritten ==
    HeaderWritten
        => LET lines == SplitCRLF(RemoveFolds(sink.buf))
               others == DOMAIN hdr \ {sBcc}
           IN  /\ Len(lines) = SumLen(hdr, others)
               /\ \A k \in others : LinesOf(lines, k) = LinesOwed(hdr, k)
               /\ LinesOf(lines, sBcc) = <<>>
               /\ sink.buf = Call("HeaderWriteTo", <<HeaderDel(hdr, sBcc), NewSink(0), wr.ord>>).s.buf

\* A header with a Bcc and a field of two values, written.
C11_Witness ==
    /\ HeaderWritten
    /\ Call("HeaderIsSet", <<hdr, sBcc>>)
    /\ \E k \in DOMAIN hdr \ {sBcc} : Len(hdr[k]) = 2 /\ hdr[k][1] # hdr[k][2]
    /\ sink.buf # <<>>

\* C12: header line length.  No line of the output of Header.WriteTo, the bytes
\* between two consecutive line breaks with the indent of a continuation line, is
\* longer than the maximum line length the writer is set up with.
C12_LineLength ==
    HeaderWritten
        => LET lines == SplitCRLF(sink.buf)
           IN  \A i \in 1..Len(lines) : Len(lines[i]) <= MaxHeaderTotalLength

\* C13: header folding is lossless.  The output of Header.WriteTo, unfolded by
\* joining the continuation lines and RFC 2047 decoded, gives back every value,
\* one longer than a line and without a space to break at included.
C13_FoldingLossless ==
    HeaderWritten
        => LET r == Call("ReadMIMEHeader", <<NewReader(sink.buf \o CRLF)>>)
           IN  /\ r.err = "nil"
               /\ Call("DecodeValues", <<r.h>>) = Call("HeaderDel", <<hdr, sBcc>>)

-----------------------------------------------------------------------------
(* Header.Add, Header.Set and Header.Del with keys in any letter case.          *)

StoreKeys ==
    {<<"s","u","b","j","e","c","t">>, <<"S","U","B","J","E","C","T">>, <<"x","-","N","O","T","E">>, <<"X","-","n","o","t","e">>,
     <<"b","c","c">>, <<"m","i","m","e","-","V","E","R","S","I","O","N">>}
StoreValues == {sHi, sZoeX}
ProbeKeys == StoreKeys \cup {sSubject, sXNote, sBcc, <<"s","U","B","J","E","C","T">>}

NextHeader ==
    \/ CallSet(StoreKeys, StoreValues)
    \/ CallAdd(StoreKeys, StoreValues)
    \/ CallDel(StoreKeys)

SpecHeader == InitHeader /\ [][NextHeader]_vars

\* A field name in canonical form: the first letter and every letter after a
\* hyphen is not lower case, every other letter is not upper case.
IsCanonical(k) ==
    \A i \in 1..Len(k) :
        IF i = 1 \/ k[i - 1] = "-" THEN ~IsLower(k[i]) ELSE ~IsUpper(k[i])

\* What Get and IsSet should answer for the key q on the multimap m.
RefGet(m, q) ==
    IF Call("ToLower", <<q>>) \in DOMAIN m /\ Len(m[Call("ToLower", <<q>>)]) > 0 THEN m[Call("ToLower", <<q>>)][1] ELSE <<>>

RefIsSet(m, q) == Call("ToLower", <<q>>) \in DOMAIN m

\* C14: after any sequence of Add, Set and Del calls with keys in any letter
\* case the Header is the reference multimap: every stored key is canonical,
\* the keys are those of the reference, each with the same values in the same
\* order, and Get and IsSet answer from the reference for every spelling.
C14_HeaderIsMultimap ==
    pc = "hbuild"
        => /\ \A k \in DOMAIN hdr :
                /\ IsCanonical(k)
                /\ Call("ToLower", <<k>>) \in DOMAIN ref.m
                /\ hdr[k] = ref.m[Call("ToLower", <<k>>)]
           /\ Cardinality(DOMAIN hdr) = Cardinality(DOMAIN ref.m)
           /\ \A q \in ProbeKeys :
                /\ Call("HeaderGet", <<hdr, q>>) = RefGet(ref.m, q)
                /\ Call("HeaderIsSet", <<hdr, q>>) = RefIsSet(ref.m, q)

C14_Witness ==
    /\ pc = "hbuild"
    /\ Cardinality(DOMAIN hdr) = 2
    /\ \E k \in DOMAIN hdr : Len(hdr[k]) = 2 /\ hdr[k][1] # hdr[k][2]

-----------------------------------------------------------------------------
(* Calls of Header.Save                                                         *)

\* Header.Save()
CallSave(R, N, P, T, D) ==
    /\ pc = "hbuild" /\ ref.n < MaxCalls
    /\ \E random \in R, hostname \in N, pid \in P, nanoTime \in T, now \in D :
         LET r == Call("HeaderSave", <<hdr, random, hostname, pid, nanoTime, now>>)
         IN  /\ hdr' = r.h
             /\ sv' = [done |-> TRUE, before |-> hdr, after |-> r.h, err |-> r.err,
                       randOk |-> random.err = "nil", called |-> r.called,
                       id |-> r.id,
                       second |-> sv.done /\ sv.err = "nil" /\ sv.after = hdr]
    /\ ref' = [ref EXCEPT !.n = @ + 1]
    /\ UNCHANGED <<pc, atts, msg, sink, wr, gen, raw, parsed, prd, qry>>

RandomInts == {[v |-> 7, err |-> "nil"], [v |-> 0, err |-> "rand"]}
Hostnames == {[v |-> <<"h","1">>, err |-> "nil"], [v |-> <<>>, err |-> "hostname"]}
Pids == {42}
NanoTimes == {5, 16}
Dates == {<<"0","5"," ","N","o","v"," ","2","6"," ","0","5",":","0","0"," ","U","T","C">>}
SaveKeys == {<<"m","e","s","s","a","g","e","-","I","D">>, sDate, <<"m","i","m","e","-","v","e","r","s","i","o","n">>, sSubject}
SaveValues == {<<>>, sOneOne}

NextSave ==
    \/ CallSet(SaveKeys, SaveValues)
    \/ CallDel({sDate, sMIMEVersion})
    \/ CallSave(RandomInts, Hostnames, Pids, NanoTimes, Dates)

SpecSave == InitHeader /\ [][NextSave]_vars

\* Save takes a field for missing when Get gives "" for it.
Missing(h, k) == Len(Call("HeaderGet", <<h, k>>)) = 0

C16_SaveOnlyAddsMissing ==
    sv.done /\ sv.err = "nil"
        => /\ \A k \in DOMAIN sv.before :
                ~Missing(sv.before, k)
                    => k \in DOMAIN sv.after /\ sv.after[k] = sv.before[k]
           /\ sv.second => sv.after = sv.before

\* C17: when the random source fails genMessageID returns an error and no id,
\* and Save returns that error and sets no Message-Id.
C17_RandFailurePropagates ==
    sv.done /\ sv.called /\ ~sv.randOk
        => /\ sv.id.err # "nil"
           /\ sv.err = sv.id.err
           /\ sv.after = sv.before

-----------------------------------------------------------------------------
(* preambleReader.Read called with buffers of any size on a multipart body.     *)

\* What follows the preamble: a part and the closing delimiter.
sAfterPreamble == sDelimiter \o <<"\r","\n","x","\r","\n">> \o sDelimiter \o <<"-","-","\r","\n">>

PreambleBodies ==
    {sAfterPreamble,
     CRLF \o sAfterPreamble,
     sPre \o CRLF \o sAfterPreamble,
     sPre \o CRLF \o CRLF \o CRLF \o sAfterPreamble,
     <<"a"," ","-"," ","b">> \o CRLF \o sAfterPreamble}

\* len(p) of the calls: shorter than the marker, longer than the marker and the
\* two bytes kept back, the first read of ioutil.ReadAll, and more than a
\* bufio.Reader holds.
BufferSizes == {2, 8, MinRead, BufioSize + 1}

InitPreamble ==
    /\ pc = "pread"
    /\ raw \in PreambleBodies
    /\ prd = [NoPreambleRead EXCEPT !.r = NewReader(raw)]
    /\ qry = NoQuery
    /\ hdr = EmptyHeader
    /\ atts = <<>>
    /\ msg = <<>>
    /\ sink = NewSink(0)
    /\ wr = NoWrite
    /\ gen = <<>>
    /\ parsed = NoResult
    /\ ref = NoRef
    /\ sv = NoSave

\* One call of preambleReader.Read(p) by a reader like ioutil.ReadAll, which
\* stops at the first error.
CallPreambleRead(S) ==
    /\ pc = "pread" /\ ~prd.done
    /\ \E lenP \in S :
         LET rd == Call("preambleReaderRead", <<prd.r, sDelimiter, lenP>>)
         IN  prd' = [r |-> rd.r, acc |-> prd.acc \o UpTo(prd.r.d, rd.n), err |-> rd.err,
                     done |-> rd.err # "nil", reads |-> prd.reads + 1]
    /\ UNCHANGED <<pc, hdr, atts, msg, sink, wr, gen, raw, parsed, ref, sv, qry>>

NextPreamble == CallPreambleRead(BufferSizes)

SpecPreamble == InitPreamble /\ [][NextPreamble]_vars

\* C18: whatever the sizes of the buffers, the reads end with EOF, the bytes
\* returned are those before the first marker without the whitespace in front
\* of the marker (none when the marker is at the start), and the stream is left
\* with the marker at its head or behind whitespace only.
C18_PreambleAnyBuffers ==
    pc = "pread" /\ prd.done
        => LET idx == Index(raw, sDelimiter)
           IN  /\ prd.err = "eof"
               /\ prd.acc = TrimRight(UpTo(raw, idx))
               /\ Index(prd.acc, sDelimiter) < 0
               /\ TrimLeft(prd.r.d) = From(raw, idx)


\* C19: the Epilogue of a multipart node is the bytes behind the closing
\* delimiter line without the whitespace at either end, and is empty when
\* there is nothing but whitespace.
C19_EpilogueTrimmed ==
    (GenHasBoundary /\ GenClasses \subseteq WellFormedClasses /\ parsed.err = "nil")
        => parsed.m[1].Epilogue = TrimString(gen[1].epi)

-----------------------------------------------------------------------------
(* The payload queries on a Message whose Content-Type is set by hand.          *)

InitPayload ==
    /\ pc = "built"
    /\ hdr = EmptyHeader
    /\ atts = <<>>
    /\ msg \in {<<m>> : m \in IOTrees}
    /\ sink = NewSink(0)
    /\ wr = NoWrite
    /\ gen = <<>>
    /\ raw = <<>>
    /\ parsed = NoResult
    /\ ref = NoRef
    /\ sv = NoSave
    /\ prd = NoPreambleRead
    /\ qry = NoQuery

\* Header.Set("Content-Type", v) on the root.
SetContentType(V) ==
    /\ pc = "built"
    /\ \E v \in V : msg' = <<[msg[1] EXCEPT !.Header = Call("HeaderSet", <<@, sContentType, v>>)]>>
    /\ UNCHANGED <<pc, hdr, atts, sink, wr, gen, raw, parsed, ref, sv, prd, qry>>

\* The four queries on the root.
CallPayload ==
    /\ pc = "built"
    /\ qry' = [done |-> TRUE, HasParts |-> Call("HasParts", <<msg[1]>>),
               HasSubMessage |-> Call("HasSubMessage", <<msg[1]>>), HasBody |-> Call("HasBody", <<msg[1]>>),
               Payload |-> Call("Payload", <<msg[1]>>)]
    /\ pc' = "queried"
    /\ UNCHANGED <<hdr, atts, msg, sink, wr, gen, raw, parsed, ref, sv, prd>>

\* Content-Type values: well-formed ones, an empty one, and two that
\* mime.ParseMediaType rejects.
PayloadContentTypes ==
    {sMultipartWithBoundary, sTextPlain, <<"M","e","s","s","a","g","e","/","R","F","C","8","2","2">>, <<"m","e","s","s","a","g","e","s","/","x">>, <<>>,
     <<"t","e","x","t","/","p","l","a","i","n",";"," ","c","h","a","r","s","e","t">>, <<"m","u","l","t","i","p","a","r","t","/","m","i","x","e","d",";"," ","b","o","u","n","d","a","r","y">>}

NextPayload ==
    \/ SetContentType(PayloadContentTypes)
    \/ DelContentType
    \/ CallPayload

SpecPayload == InitPayload /\ [][NextPayload]_vars

\* The media type the Content-Type field starts with, lower case, "" without
\* the field.
MediaTypeOf(h) == TrimString(Call("ToLower", <<UpTo(Call("HeaderGet", <<h, sContentType>>),
                      Max(0, IF IndexByte(Call("HeaderGet", <<h, sContentType>>), ";") < 0
                             THEN Len(Call("HeaderGet", <<h, sContentType>>))
                             ELSE IndexByte(Call("HeaderGet", <<h, sContentType>>), ";")))>>))

\* C20: exactly one of HasParts, HasSubMessage and HasBody is true; which one
\* depends on the media type of Content-Type only: HasParts when it starts with
\* "multipart", HasSubMessage when it starts with "message", HasBody otherwise,
\* without a Content-Type too; and Payload returns the field of the one true.
C20_PayloadQueries ==
    pc = "queried"
        => LET t == MediaTypeOf(msg[1].Header)
           IN  /\ qry.HasParts = HasPrefix(t, sMultipart)
               /\ qry.HasSubMessage = HasPrefix(t, sMessage)
               /\ qry.HasBody = (~HasPrefix(t, sMultipart) /\ ~HasPrefix(t, sMessage))
               /\ qry.Payload.field =
                    (IF qry.HasParts THEN "Parts"
                     ELSE IF qry.HasSubMessage THEN "SubMessage" ELSE "Body")
               /\ qry.HasBody => qry.Payload.field = "Body"

-----------------------------------------------------------------------------
(* The traversals of a parsed tree.                                             *)

WalkKinds == {p \in PartKinds : p.class \in {"nested", "message", "encoded"} \/ p.seg = <<"o","n","e">>}

WalkCorpus ==
    {GenMultipart(sMultipartWithBoundary, <<>>, <<>>, ps) : ps \in SeqsUpTo(WalkKinds, MaxParts)}
    \cup {GenLeaf(sTextPlain, <<>>, <<"Y","W","J","j">>)}

WalkFilters ==
    {AllMessages, [all |-> FALSE, prefix |-> sText], [all |-> FALSE, prefix |-> sMultipart],
     [all |-> FALSE, prefix |-> sOctetStream]}

InitWalk ==
    /\ pc = "input"
    /\ hdr = EmptyHeader
    /\ atts = <<>>
    /\ msg = <<>>
    /\ sink = NewSink(0)
    /\ wr = NoWrite
    /\ gen \in {<<g>> : g \in WalkCorpus}
    /\ raw = Wire(gen[1])
    /\ parsed = NoResult
    /\ ref = NoRef
    /\ sv = NoSave
    /\ prd = NoPreambleRead
    /\ qry = NoQuery

\* PartsFilter, MessagesFilter and MessagesAll on the root of the parsed tree.
CallWalk(F) ==
    /\ pc = "parsed" /\ parsed.err = "nil" /\ ~qry.done
    /\ \E f \in F :
         qry' = [done |-> TRUE, f |-> f,
                 PartsFilter |-> Call("PartsFilter", <<parsed.m[1], f>>),
                 MessagesFilter |-> Call("MessagesFilter", <<parsed.m[1], f>>),
                 MessagesAll |-> Call("MessagesAll", <<parsed.m[1]>>)]
    /\ UNCHANGED <<pc, hdr, atts, msg, sink, wr, gen, raw, parsed, ref, sv, prd>>

NextWalk ==
    \/ ParseInput
    \/ CallWalk(WalkFilters)

SpecWalk == InitWalk /\ [][NextWalk]_vars

\* The nodes under m in depth-first pre-order, by the fields of the nodes.
RECURSIVE PreOrder(_)
PreOrder(m) ==
    <<m>> \o (IF m.SubMessage # <<>> THEN PreOrder(m.SubMessage[1])
              ELSE Flatten([i \in 1..Len(m.Parts) |-> PreOrder(m.Parts[i])]))

\* The number of nodes under m.
RECURSIVE CountNodes(_)
CountNodes(m) ==
    1 + (IF m.SubMessage # <<>> THEN CountNodes(m.SubMessage[1]) ELSE 0)
      + Len(Flatten([i \in 1..Len(m.Parts) |-> [j \in 1..CountNodes(m.Parts[i]) |-> j]]))

\* The elements of seq that f takes, in order.
Taken(seq, f) == Flatten([i \in 1..Len(seq) |-> IF Filter(f, seq[i]) THEN <<seq[i]>> ELSE <<>>])

\* C21: on a parsed tree MessagesFilter returns the nodes the filter takes, each
\* once, in depth-first pre-order from the node itself; MessagesAll returns
\* every node once; PartsFilter returns the direct children the filter takes,
\* in order, and nothing for a node that is not multipart.
C21_Traversal ==
    (pc = "parsed" /\ qry.done)
        => LET m == parsed.m[1]
               all == PreOrder(m)
           IN  /\ qry.MessagesAll = all
               /\ Len(all) = CountNodes(m)
               /\ {all[i] : i \in 1..Len(all)} = Nodes(m)
               /\ qry.MessagesFilter = Taken(all, qry.f)
               /\ qry.PartsFilter =
                    (IF HasPrefix(MediaTypeOf(m.Header), sMultipart)
                     THEN Taken(m.Parts, qry.f) ELSE <<>>)

\* A tree with a nested multipart and a sub-message, and a filter that takes
\* some of its nodes, one of them below the direct children.
C21_Witness ==
    /\ pc = "parsed" /\ qry.done /\ ~qry.f.all
    /\ \E i \in 1..Len(parsed.m[1].Parts) : parsed.m[1].Parts[i].Parts # <<>>
    /\ \E i \in 1..Len(parsed.m[1].Parts) : parsed.m[1].Parts[i].SubMessage # <<>>
    /\ Len(qry.MessagesFilter) > Len(qry.PartsFilter)
    /\ Len(qry.PartsFilter) > 0
    /\ Len(qry.MessagesFilter) < Len(qry.MessagesAll)

-----------------------------------------------------------------------------
(* The address lists of a Header: SetTo, SetCc, SetBcc and then To, Cc, Bcc.    *)

sAnn == <<"a","n","n","@","x",".","o","r","g">>
sBob == <<"B","o","b"," ","<","b","o","b","@","x",".","o","r","g",">">>
sDoeJohn == <<"\"","D","o","e",","," ","J","o","h","n","\""," ","<","j","@","x",".","o","r","g",">">>

AddressFields == {sTo, sCc, sBcc}
AddressLists == {<<>>, <<sAnn>>, <<sAnn, sBob>>, <<sDoeJohn>>}

\* Header.SetTo, SetCc or SetBcc; ref.m keeps the list given for the field.
CallSetAddresses(F, L) ==
    /\ pc = "hbuild" /\ ref.n < MaxCalls
    /\ \E field \in F, emails \in L :
         /\ hdr' = Call("HeaderSetAddresses", <<hdr, field, emails>>)
         /\ ref' = [m |-> MapPut(ref.m, Call("ToLower", <<field>>), emails), n |-> ref.n + 1]
    /\ UNCHANGED <<pc, atts, msg, sink, wr, gen, raw, parsed, sv, prd, qry>>

\* Header.To, Cc or Bcc
CallAddresses(F) ==
    /\ pc = "hbuild"
    /\ \E field \in F :
         qry' = [done |-> TRUE, field |-> field, got |-> Call("HeaderAddresses", <<hdr, field>>)]
    /\ pc' = "hread"
    /\ UNCHANGED <<hdr, atts, msg, sink, wr, gen, raw, parsed, ref, sv, prd>>

NextAddress ==
    \/ CallSetAddresses(AddressFields, AddressLists)
    \/ CallAddresses(AddressFields)

SpecAddress == InitHeader /\ [][NextAddress]_vars

\* C22: To, Cc and Bcc return the list that SetTo, SetCc and SetBcc were last
\* given, the empty list and addresses with ", " in the display name included.
C22_AddressListRoundTrip ==
    (pc = "hread" /\ Call("ToLower", <<qry.field>>) \in DOMAIN ref.m)
        => qry.got = ref.m[Call("ToLower", <<qry.field>>)]

-----------------------------------------------------------------------------
(* Message.Send on messages whose To, Cc, Bcc and From are set or absent.       *)

SendLists == {<<sAnn>>, <<sAnn, sBob>>}

InitSend ==
    /\ pc = "built"
    /\ hdr = EmptyHeader
    /\ atts = <<>>
    /\ msg = <<Call("NewPartText", <<sHi>>)>>
    /\ sink = NewSink(0)
    /\ wr = NoWrite
    /\ gen = <<>>
    /\ raw = <<>>
    /\ parsed = NoResult
    /\ ref = NoRef
    /\ sv = NoSave
    /\ prd = NoPreambleRead
    /\ qry = NoQuery

\* Header.SetTo, SetCc or SetBcc on the message; ref.m keeps the list given.
SetRecipients(F, L) ==
    /\ pc = "built" /\ ref.n < MaxCalls
    /\ \E field \in F, emails \in L :
         /\ msg' = <<[msg[1] EXCEPT !.Header = Call("HeaderSetAddresses", <<@, field, emails>>)]>>
         /\ ref' = [m |-> MapPut(ref.m, Call("ToLower", <<field>>), emails), n |-> ref.n + 1]
    /\ UNCHANGED <<pc, hdr, atts, sink, wr, gen, raw, parsed, sv, prd, qry>>

\* Header.SetFrom on the message.
SetFrom(V) ==
    /\ pc = "built" /\ ~Call("HeaderIsSet", <<msg[1].Header, sFrom>>)
    /\ \E v \in V : msg' = <<[msg[1] EXCEPT !.Header = Call("HeaderSet", <<@, sFrom, v>>)]>>
    /\ UNCHANGED <<pc, hdr, atts, sink, wr, gen, raw, parsed, ref, sv, prd, qry>>

\* Message.Send
CallSend(R, E) ==
    /\ pc = "built"
    /\ \E random \in R, smtpErr \in E :
         LET r == Call("MessageSend", <<msg[1], random, [v |-> sLocalhost, err |-> "nil"], 42, 5,
                              CHOOSE d \in Dates : TRUE, <<sFrom, sTo>>, smtpErr>>)
         IN  /\ msg' = <<r.m>>
             /\ qry' = [done |-> TRUE, err |-> r.err, before |-> msg[1], mail |-> r.mail]
    /\ pc' = "sent"
    /\ UNCHANGED <<hdr, atts, sink, wr, gen, raw, parsed, ref, sv, prd>>

NextSend ==
    \/ SetRecipients(AddressFields, SendLists)
    \/ SetFrom({sBob})
    \/ CallSend(RandomInts, {"nil", "smtp"})

SpecSend == InitSend /\ [][NextSend]_vars

\* The addresses of the lists given for the fields that are present.
RecipientsOwed ==
    LET Of(field) == IF Call("ToLower", <<field>>) \in DOMAIN ref.m
                     THEN [i \in 1..Len(ref.m[Call("ToLower", <<field>>)]) |->
                             Call("ParseAddress", <<ref.m[Call("ToLower", <<field>>)][i]>>).address]
                     ELSE <<>>
    IN  Of(sTo) \o Of(sCc) \o Of(sBcc)

\* C23: Send fails for want of a recipient exactly when To, Cc and Bcc hold no
\* address; with a From and an address in To it gets past the recipients,
\* whether Cc and Bcc are there or not, and what it hands to the SMTP client is
\* the addresses of the fields present and the message as it is after Save.
C23_SendRecipients ==
    pc = "sent"
        => /\ (qry.err = ErrNoRecipient) = (RecipientsOwed = <<>>)
           /\ (Call("HeaderIsSet", <<qry.before.Header, sFrom>>) /\ Call("HeaderIsSet", <<qry.before.Header, sTo>>))
                => /\ qry.err \in {"nil", "smtp"}
                   /\ Len(qry.mail) = 1
                   /\ qry.mail[1].to = RecipientsOwed
                   /\ Call("HeaderIsSet", <<msg[1].Header, sMIMEVersion>>)
                   /\ qry.mail[1].msg = Call("MessageBytes", <<msg[1], <<sFrom, sTo>>>>).bytes


\* The number of places of s where sep begins.
CountSub(s, sep) ==
    Cardinality({i \in 0..(Len(s) - Len(sep)) : SubSeq(s, i + 1, i + Len(sep)) = sep})

IsMultipartNode(n) == HasPrefix(MediaTypeOf(n.Header), sMultipart)

BoundaryOf(n) == Param(Call("ParseMediaType", <<HeaderGet(n.Header, sContentType)>>).params, sBoundary)

\* The bytes a multipart node n is to be written as, given those of its header
\* and of each of its parts.
Framed(n, ord) ==
    Call("HeaderWriteTo", <<n.Header, NewSink(0), ord>>).s.buf \o CRLF
        \o (IF n.Preamble = <<>> THEN <<>> ELSE n.Preamble \o CRLF)
        \o Flatten([i \in 1..Len(n.Parts) |->
                      CRLF \o <<"-", "-">> \o BoundaryOf(n) \o CRLF
                           \o Call("MessageBytes", <<n.Parts[i], ord>>).bytes])
        \o CRLF \o <<"-", "-">> \o BoundaryOf(n) \o <<"-", "-">> \o CRLF
        \o (IF n.Epilogue = <<>> THEN <<>> ELSE n.Epilogue \o CRLF)

\* C24: a multipart node with n parts and boundary B is written as its header
\* block, CRLF, the preamble and a newline if there is a preamble, for each part
\* in order CRLF "--B" CRLF and the part as it is written, one CRLF "--B--"
\* CRLF, and the epilogue and a newline if there is an epilogue; its bytes hold
\* n opening delimiters of the node and one closing delimiter.
C24_MultipartFraming ==
    (pc = "written" /\ wr.err = "nil")
        => /\ sink.buf = Call("MessageBytes", <<msg[1], wr.ord>>).bytes
           /\ \A n \in Nodes(msg[1]) :
                IsMultipartNode(n)
                    => LET b == Call("MessageBytes", <<n, wr.ord>>).bytes
                       IN  /\ b = Framed(n, wr.ord)
                           /\ CountSub(b, CRLF \o <<"-", "-">> \o BoundaryOf(n) \o CRLF)
                                = Len(n.Parts)
                           /\ CountSub(b, CRLF \o <<"-", "-">> \o BoundaryOf(n)
                                            \o <<"-", "-">> \o CRLF) = 1

\* A multipart root with a preamble and an epilogue written with a nested
\* multipart part and another part behind it.
C24_Witness ==
    /\ pc = "written" /\ wr.err = "nil"
    /\ IsMultipartNode(msg[1]) /\ Len(msg[1].Parts) >= 2
    /\ msg[1].Preamble # <<>> /\ msg[1].Epilogue # <<>>
    /\ IsMultipartNode(msg[1].Parts[1]) /\ Len(msg[1].Parts[1].Parts) >= 2


-----------------------------------------------------------------------------
(* base64Writer.Write called several times on one writer.  prd is              *)
(* [w, acc, err, reads]: the writer, the bytes handed to it so far, the error   *)
(* of the last call and the number of calls.                                    *)

\* len(p) of the calls: nothing, one byte, two, half a line, one less than a
\* line, a line, one more, two lines, two lines and a byte.
FoldSizes == {0, 1, 2, MaxBodyLineLength \div 2, MaxBodyLineLength - 1, MaxBodyLineLength,
              MaxBodyLineLength + 1, 2 * MaxBodyLineLength, 2 * MaxBodyLineLength + 1}

\* n characters of the base64 alphabet, which differ from one place of the
\* stream to the next: the one at place off + 1 first.
FoldChunk(off, n) == [i \in 1..n |-> B64Char((off + i - 1) % 64)]

InitFold ==
    /\ pc = "fold"
    /\ prd = [w |-> [w |-> NewSink(0), curLineLen |-> 0, maxLineLen |-> MaxBodyLineLength],
              acc |-> <<>>, err |-> "nil", reads |-> 0]
    /\ raw = <<>>
    /\ qry = NoQuery
    /\ hdr = EmptyHeader
    /\ atts = <<>>
    /\ msg = <<>>
    /\ sink = NewSink(0)
    /\ wr = NoWrite
    /\ gen = <<>>
    /\ parsed = NoResult
    /\ ref = NoRef
    /\ sv = NoSave

\* One call of base64Writer.Write(p).
CallFoldWrite(S) ==
    /\ pc = "fold" /\ prd.reads < MaxCalls /\ prd.err = "nil"
    /\ \E lenP \in S :
         LET p == FoldChunk(Len(prd.acc), lenP)
             r == Call("base64WriterWrite", <<prd.w, p>>)
         IN  prd' = [w |-> r.w, acc |-> prd.acc \o p, err |-> r.err, reads |-> prd.reads + 1]
    /\ UNCHANGED <<pc, hdr, atts, msg, sink, wr, gen, raw, parsed, ref, sv, qry>>

NextFold == CallFoldWrite(FoldSizes)

SpecFold == InitFold /\ [][NextFold]_vars

\* s with CRLF after every k-th byte of it.
RECURSIVE FoldAfterEvery(_, _)
FoldAfterEvery(s, k) ==
    IF Len(s) < k THEN s ELSE UpTo(s, k) \o CRLF \o FoldAfterEvery(From(s, k), k)

\* s with CRLF after every k-th byte of it that has a byte behind it.
RECURSIVE FoldBetween(_, _)
FoldBetween(s, k) ==
    IF Len(s) <= k THEN s ELSE UpTo(s, k) \o CRLF \o FoldBetween(From(s, k), k)

\* The lines of the bytes that reached the sink.
FoldLines == Call("Split", <<prd.w.w.buf, CRLF>>)

\* No line is longer than the limit, every line but the last has the limit's
\* length, and the lines without their CRLFs are the input.
FoldLinesOk ==
    /\ \A i \in 1..Len(FoldLines) :
         /\ Len(FoldLines[i]) <= MaxBodyLineLength
         /\ i < Len(FoldLines) => Len(FoldLines[i]) = MaxBodyLineLength
         /\ \A j \in 1..Len(FoldLines[i]) : FoldLines[i][j] \notin {"\r", "\n", " ", "\t"}
    /\ Flatten(FoldLines) = prd.acc

\* C25: after any calls of Write on a base64Writer of limit 76 the sink holds
\* the bytes written with CRLF after every 76th of them and nowhere else: no
\* line is longer than 76 bytes, every line but the last has 76, nothing is
\* added in front of a line, and without the CRLFs the bytes are the input.
C25_FoldAfterEvery76 ==
    pc = "fold"
        => /\ prd.err = "nil"
           /\ prd.w.w.buf = FoldAfterEvery(prd.acc, MaxBodyLineLength)
           /\ FoldLinesOk

\* C25 as the code has it: the CRLF after a 76th byte is written when the next
\* byte is, so the bytes in the sink never end with the CRLF of a full line.
C25_FoldBetween76 ==
    pc = "fold"
        => /\ prd.err = "nil"
           /\ prd.w.w.buf = FoldBetween(prd.acc, MaxBodyLineLength)
           /\ prd.w.curLineLen = Len(FoldLines[Len(FoldLines)])
           /\ FoldLinesOk

\* Three calls, the first ending in the middle of a line, the second at the end
\* of one, the third going on behind it.
C25_Witness ==
    /\ pc = "fold" /\ prd.reads = 3
    /\ Len(prd.acc) = 2 * MaxBodyLineLength + 1
    /\ prd.w.w.calls > 5
    /\ prd.w.curLineLen = 1


-----------------------------------------------------------------------------
(* leftTrimReader.Read called until the end of the stream.  prd is              *)
(* [r, acc, err, done, loads]: the leftTrimReader, the bytes its reads          *)
(* delivered so far, the error of the last read, whether that was the end, and  *)
(* the number of buffers of white space only that were discarded.               *)

TrimStreams ==
    {<<>>,
     <<"H","i">>,
     <<" ", "\r", "\n">>,
     <<" ", "\t", "\r", "\n", " ">> \o <<"H","i"," ">> \o CRLF \o <<" ">> \o <<"x"," ">>,
     CRLF \o CRLF \o sSubjectLine \o CRLF \o CRLF \o <<" ","H","i">>}

\* len(p) of the calls: nothing, one byte, the first read of ioutil.ReadAll, what
\* a bufio.Reader on top asks for.
TrimBufferSizes == {0, 1, MinRead, BufioSize}

\* The most bytes a call of the underlying reader hands out.
TrimChunks == {1, 3, BufioSize}

InitTrim ==
    /\ pc = "tread"
    /\ raw \in TrimStreams
    /\ prd = [r |-> [r |-> [src |-> raw, buf |-> <<>>], done |-> FALSE],
              acc |-> <<>>, err |-> "nil", done |-> FALSE, loads |-> 0]
    /\ qry = NoQuery
    /\ hdr = EmptyHeader
    /\ atts = <<>>
    /\ msg = <<>>
    /\ sink = NewSink(0)
    /\ wr = NoWrite
    /\ gen = <<>>
    /\ parsed = NoResult
    /\ ref = NoRef
    /\ sv = NoSave

\* One call of leftTrimReader.Read(p) by a reader that stops at the first error.
CallTrimRead(S, K) ==
    /\ pc = "tread" /\ ~prd.done
    /\ \E lenP \in S, chunk \in K :
         LET rd == Call("leftTrimReaderReadP", <<prd.r, lenP, chunk>>)
         IN  prd' = [r |-> rd.t, acc |-> prd.acc \o rd.p, err |-> rd.err,
                     done |-> rd.err # "nil", loads |-> prd.loads + rd.loads]
    /\ UNCHANGED <<pc, hdr, atts, msg, sink, wr, gen, raw, parsed, ref, sv, qry>>

NextTrim == CallTrimRead(TrimBufferSizes, TrimChunks)

SpecTrim == InitTrim /\ [][NextTrim]_vars

\* C26: whatever the sizes of the reads and of the buffer loads, the bytes
\* delivered are the head of the stream without its leading white space, the
\* bytes still to come are the rest of it once a byte was delivered, the only
\* error is EOF, and at EOF the whole stream without its leading white space
\* was delivered.
C26_LeftTrim ==
    pc = "tread"
        => /\ Len(prd.acc) <= Len(TrimLeft(raw))
           /\ prd.acc = UpTo(TrimLeft(raw), Len(prd.acc))
           /\ TrimLeft(prd.acc \o prd.r.r.buf \o prd.r.r.src) = TrimLeft(raw)
           /\ prd.acc # <<>> => prd.acc \o prd.r.r.buf \o prd.r.r.src = TrimLeft(raw)
           /\ prd.err \in {"nil", "eof"}
           /\ prd.done => /\ prd.acc = TrimLeft(raw)
                          /\ prd.acc = Call("leftTrimReaderRead", <<NewReader(raw)>>).d

\* A stream read to its end whose leading white space took several buffers and
\* which has white space behind its first byte.
C26_Witness ==
    /\ pc = "tread" /\ prd.done /\ prd.loads >= 2
    /\ prd.acc # <<>> /\ Len(prd.acc) < Len(raw)
    /\ \E i \in 1..Len(prd.acc) : isASCIISpace(prd.acc[i])


-----------------------------------------------------------------------------
(* DeliveryStatusRecipientDNS on a parsed delivery status notification.        *)

MaxBlocks == 3

sReportingMTA == <<"R","e","p","o","r","t","i","n","g","-","M","T","A",":"," ","d","n","s",";"," ","x",".","o","r","g">> \o CRLF

\* The field blocks of the recipients.
RecipientBlocks ==
    {<<"F","i","n","a","l","-","R","e","c","i","p","i","e","n","t",":"," ","r","f","c","8","2","2",";"," ","a","n","n","@","x",".","o","r","g">> \o CRLF \o <<"A","c","t","i","o","n",":"," ","f","a","i","l","e","d">> \o CRLF,
     <<"F","i","n","a","l","-","R","e","c","i","p","i","e","n","t",":"," ","r","f","c","8","2","2",";"," ","b","o","b","@","x",".","o","r","g">> \o CRLF \o <<"S","t","a","t","u","s",":"," ","5",".","1",".","1">> \o CRLF,
     <<"A","c","t","i","o","n",":"," ","d","e","l","a","y","e","d">> \o CRLF}

sRfc822 == <<"m","e","s","s","a","g","e","/","r","f","c","8","2","2">>

DsnContentTypes == {sDeliveryStatus, <<"M","e","s","s","a","g","e","/","D","e","l","i","v","e","r","y","-","S","t","a","t","u","s">>, sRfc822, sTextPlain}

\* A message of content type ct whose body is the fields of the message, a
\* blank line, and the blocks with a blank line between them, and behind the
\* last one too if blank.
GenDsn(ct, blocks, blank) ==
    [kind |-> "leaf", ct |-> ct, cte |-> <<>>,
     body |-> sReportingMTA \o CRLF \o Join(blocks, CRLF) \o (IF blank THEN CRLF ELSE <<>>),
     blocks |-> blocks, blank |-> blank]

DsnCorpus ==
    {GenDsn(ct, bb[1], bb[2]) :
        ct \in DsnContentTypes,
        bb \in {x \in SeqsUpTo(RecipientBlocks, MaxBlocks) \X BOOLEAN : x[2] => x[1] # <<>>}}

InitDsn ==
    /\ pc = "input"
    /\ hdr = EmptyHeader
    /\ atts = <<>>
    /\ msg = <<>>
    /\ sink = NewSink(0)
    /\ wr = NoWrite
    /\ gen \in {<<g>> : g \in DsnCorpus}
    /\ raw = Wire(gen[1])
    /\ parsed = NoResult
    /\ ref = NoRef
    /\ sv = NoSave
    /\ prd = NoPreambleRead
    /\ qry = NoQuery

\* DeliveryStatusRecipientDNS on the root of the parsed tree.
CallRecipientDNS ==
    /\ pc = "parsed" /\ parsed.err = "nil" /\ ~qry.done
    /\ LET r == Call("DeliveryStatusRecipientDNS", <<parsed.m[1]>>)
       IN  qry' = [done |-> TRUE, recipientDNS |-> r.recipientDNS, err |-> r.err]
    /\ UNCHANGED <<pc, hdr, atts, msg, sink, wr, gen, raw, parsed, ref, sv, prd>>

NextDsn ==
    \/ ParseInput
    \/ CallRecipientDNS

SpecDsn == InitDsn /\ [][NextDsn]_vars

\* The Headers of the blocks, one for each in order.
BlockHeaders(blocks) == [i \in 1..Len(blocks) |-> Call("ReadMIMEHeader", <<NewReader(blocks[i])>>).h]

\* C27: on a message/delivery-status message with a sub-message
\* DeliveryStatusRecipientDNS returns one Header for each field block of the
\* body of the sub-message, in order, and nothing behind them; on any other
\* message it returns an error.
C27_RecipientBlocks ==
    (pc = "parsed" /\ qry.done)
        => IF Call("ToLower", <<gen[1].ct>>) = sDeliveryStatus
           THEN /\ qry.err = "nil"
                /\ qry.recipientDNS = BlockHeaders(gen[1].blocks)
           ELSE qry.err # "nil"

\* What the code does: the Header that ReadMIMEHeader returns together with
\* io.EOF is appended too, so a Header without fields comes last when the body
\* ends with a blank line or has no block.
C27_AsCoded ==
    (pc = "parsed" /\ qry.done)
        => IF Call("ToLower", <<gen[1].ct>>) = sDeliveryStatus
           THEN /\ qry.err = "nil"
                /\ qry.recipientDNS =
                     BlockHeaders(gen[1].blocks)
                       \o (IF gen[1].blank \/ gen[1].blocks = <<>> THEN <<EmptyHeader>> ELSE <<>>)
           ELSE qry.err # "nil" /\ qry.recipientDNS = <<>>


\* The number of CRLFs of s that no space follows: the ends of field lines.
FieldEnds(s) ==
    Cardinality({i \in 1..(Len(s) - 1) :
                   /\ s[i] = "\r" /\ s[i + 1] = "\n"
                   /\ (i + 2 <= Len(s) => s[i + 2] # " ")})

\* C28: in the output of Header.WriteTo every CR is followed by LF and every LF
\* follows a CR, whatever the length of a field line: the CRLF that ends a
\* field is not split by a fold, the output ends with the CRLF of the last
\* field, and there is one CRLF without a space behind it for each value
\* written.
C28_TerminatorIntegrity ==
    HeaderWritten
        => /\ \A i \in 1..Len(sink.buf) :
                /\ sink.buf[i] = "\r" => (i < Len(sink.buf) /\ sink.buf[i + 1] = "\n")
                /\ sink.buf[i] = "\n" => (i > 1 /\ sink.buf[i - 1] = "\r")
           /\ sink.buf # <<>> => HasSuffix(sink.buf, CRLF)
           /\ FieldEnds(sink.buf) = SumLen(hdr, DOMAIN hdr \ {sBcc})


-----------------------------------------------------------------------------
(* Message.Bytes called twice on a constructed tree.                            *)

\* m.Bytes() and m.Bytes() again; the range over a Header map may visit the
\* fields in another order the second time.
CallBytesTwice ==
    /\ pc = "built" /\ ~qry.done
    /\ \E ord1 \in Orders, ord2 \in Orders :
         LET m1 == Call("MessageAfterWriteTo", <<msg[1]>>)
             m2 == Call("MessageAfterWriteTo", <<m1>>)
         IN  /\ qry' = [done |-> TRUE, before |-> msg[1],
                        first |-> Call("MessageBytes", <<msg[1], ord1>>), second |-> Call("MessageBytes", <<m1, ord2>>),
                        ord1 |-> ord1, ord2 |-> ord2]
             /\ msg' = <<m2>>
    /\ pc' = "twice"
    /\ UNCHANGED <<hdr, atts, sink, wr, gen, raw, parsed, ref, sv, prd>>

NextTwice ==
    \/ SetSubject
    \/ SetBcc
    \/ AddPart
    \/ CallNewMessage
    \/ CallNewMessageWithInlines
    \/ CallNewPartMultipart
    \/ CallNewPartText
    \/ CallNewPartHTML
    \/ UsePart
    \/ SetPreambleEpilogue
    \/ CallBytesTwice

SpecTwice == Init /\ [][NextTwice]_vars

-----------------------------------------------------------------------------
(* Trees built with the constructors from parts of any content type, written    *)
(* and walked.                                                                  *)

sImagePng == <<"i","m","a","g","e","/","p","n","g">>

\* The contentType arguments of NewPartFromBytes.
ConstructContentTypes ==
    {<<>>, sTextPlain, sOctetStream, sRfc822, <<"M","e","s","s","a","g","e","/","P","a","r","t","i","a","l">>,
     sMultipartSlash \o sMixed, sMultipartWithBoundary}

\* File names, each with what mime.TypeByExtension may make of its extension:
\* the table of the mime package knows .png and not .eml or .bin, the mime.types
\* file of the system, if there is one, names message/rfc822 for .eml.
ConstructFiles ==
    {[filename |-> <<"i",".","p","n","g">>, types |-> {sImagePng}],
     [filename |-> <<"f",".","b","i","n">>, types |-> {<<>>, sOctetStream}],
     [filename |-> <<"m",".","e","m","l">>, types |-> {<<>>, sRfc822}]}

\* NewPartFromBytes
CallNewPartFromBytes(T) ==
    /\ pc = "build" /\ Len(atts) < MaxAtts
    /\ \E ct \in T, body \in TextValues :
         atts' = Append(atts, Call("NewPartFromBytes", <<body, ct, <<>>, <<>>>>))
    /\ UNCHANGED <<pc, hdr, msg, sink, wr, gen, raw, parsed, ref, sv, prd, qry>>

\* NewPartAttachmentFromBytes
CallNewPartAttachmentFromBytes(F) ==
    /\ pc = "build" /\ Len(atts) < MaxAtts
    /\ \E f \in F, body \in TextValues :
         \E t \in f.types :
            atts' = Append(atts, Call("NewPartAttachmentFromBytes", <<body, f.filename, t>>))
    /\ UNCHANGED <<pc, hdr, msg, sink, wr, gen, raw, parsed, ref, sv, prd, qry>>

\* NewPartInlineFromBytes
CallNewPartInlineFromBytes(F) ==
    /\ pc = "build" /\ Len(atts) < MaxAtts
    /\ \E f \in F, body \in TextValues :
         \E t \in f.types :
            atts' = Append(atts, Call("NewPartInlineFromBytes", <<body, f.filename, t, <<"c","i","d","1">>>>))
    /\ UNCHANGED <<pc, hdr, msg, sink, wr, gen, raw, parsed, ref, sv, prd, qry>>

\* MessagesAll on the tree that was written.
CallMessagesAll ==
    /\ pc = "written" /\ ~qry.done
    /\ qry' = [done |-> TRUE, MessagesAll |-> Call("MessagesAll", <<msg[1]>>)]
    /\ UNCHANGED <<pc, hdr, atts, msg, sink, wr, gen, raw, parsed, ref, sv, prd>>

NextConstruct ==
    \/ SetSubject
    \/ CallNewPartFromBytes(ConstructContentTypes)
    \/ CallNewPartAttachmentFromBytes(ConstructFiles)
    \/ CallNewPartInlineFromBytes(ConstructFiles)
    \/ CallNewMessage
    \/ CallNewMessageWithInlines
    \/ CallNewPartMultipart
    \/ CallNewPartText
    \/ CallNewPartHTML
    \/ UsePart
    \/ WriteTo(0)
    \/ CallMessagesAll

SpecConstruct == Init /\ [][NextConstruct]_vars

\* C30: every node of a tree built with the constructors has the payload its
\* Content-Type selects, whatever content type or file name its parts were
\* built with; Message.WriteTo on the tree returns without an error on a sink
\* that takes every byte, and MessagesAll returns nodes only, neither having
\* followed a SubMessage that is nil.
C30_ConstructedPayload ==
    pc \in {"built", "written"}
        => /\ \A n \in Nodes(msg[1]) : PayloadAsSelected(n)
           /\ pc = "written" => wr.err = "nil"
           /\ qry.done => \A i \in 1..Len(qry.MessagesAll) : qry.MessagesAll[i] # Panic

\* What holds of the trees built: the constructors select the payload by the
\* content type only where they set it themselves, and a part built from bytes
\* carries a Body whatever its Content-Type is.
C30_AsCoded ==
    pc \in {"built", "written"}
        => LET bad == {n \in Nodes(msg[1]) : ~PayloadAsSelected(n)}
               absent == {n \in bad : HasPrefix(MediaTypeOf(n.Header), sMessage)}
           IN  /\ \A n \in bad :
                    /\ n.Body # <<>> /\ n.Parts = <<>> /\ n.SubMessage = <<>>
                    /\ \/ HasPrefix(MediaTypeOf(n.Header), sMessage)
                       \/ HasPrefix(MediaTypeOf(n.Header), sMultipart)
               /\ pc = "written" => (wr.err = "panic") = (absent # {})
               /\ pc = "written" => wr.err \in {"nil", "panic"}
               /\ qry.done => (\E i \in 1..Len(qry.MessagesAll) : qry.MessagesAll[i] = Panic)
                                = (absent # {})

=============================================================================
